---------------------------- MODULE Spec2Model ----------------------------
(***************************************************************************)
(* Order-management saga: the inventory ledger of products-service         *)
(* (InventoryService), the order aggregate of orders-service               *)
(* (OrderService), and the consume loops that connect them over the        *)
(* broker's queues.                                                        *)
(***************************************************************************)
EXTENDS Integers, Sequences, FiniteSets, TLC

(***************************************************************************)
(* Bounds of the model.                                                    *)
(***************************************************************************)
\* the largest list batchUpdate accepts
MaxBatchSize == 1000

\* cap on the number of events in the queue orders-service.products
MaxEvents == 2

\* cap on the number of requests and payment events that reach orders-service
MaxRequests == 2

(***************************************************************************)
(* Input sets.                                                             *)
(***************************************************************************)
Products == {"P1", "P2"}
Warehouses == {"W1", "W2"}
OrderIds == {"o1", "o2"}
\* the ids the orders table generates for new orders
NewOrderIds == {"o1"}
\* concurrent requests of POST /api/v1/inventory/reserve
Callers == {"r1", "r2"}

Keys == Products \X Warehouses

VARIABLES
    inventory,              \* table inventory: (productId, warehouseId) -> quantity
    inventoryReservations,  \* table inventory_reservations, in insertion order
    productsQueue,          \* queue orders-service.products (exchange products)
    calls,                  \* reserve transactions in flight, per caller
    last,                   \* the last completed service call and its outcome
    orders,                 \* table orders: id -> row
    orderItems,             \* table order_items: order id -> its line items
    orderInventoryTracking, \* table order_inventory_tracking, in insertion order
    creating,               \* orders committed by create, order.created not yet published
    ordersQueue,            \* queue products-service.orders (exchange orders)
    paymentsQueue,          \* queue orders-service.payments (exchange payments)
    handlers,               \* products-service: deliveries being handled
    clock,                  \* the time new Date() returns
    requests,               \* requests and payment events received so far
    warehouses,             \* table warehouses: id -> isActive
    defaultWarehouseId      \* this.defaultWarehouseId of each consumer

ledgerVars == <<inventory, inventoryReservations, calls>>

ordersVars == <<orders, orderItems, orderInventoryTracking, creating, clock>>

warehouseVars == <<warehouses, defaultWarehouseId>>

sagaVars == <<orders, orderItems, orderInventoryTracking, creating, ordersQueue,
              paymentsQueue, handlers, clock, requests, warehouseVars>>

vars == <<inventory, inventoryReservations, productsQueue, calls, last,
          orders, orderItems, orderInventoryTracking, creating, ordersQueue,
          paymentsQueue, handlers, clock, requests, warehouses,
          defaultWarehouseId>>

(***************************************************************************)
(* products-service: InventoryService                                      *)
(***************************************************************************)

\* a sum over the reservations of every status
RECURSIVE SumReserved(_, _, _)
SumReserved(rows, productId, warehouseId) ==
    IF rows = <<>> THEN 0
    ELSE LET r == Head(rows)
             rest == SumReserved(Tail(rows), productId, warehouseId)
         IN IF r.productId = productId /\ r.warehouseId = warehouseId
            THEN r.quantity + rest
            ELSE rest

\* COALESCE(SUM(quantity), 0) over the rows of (productId, warehouseId) with
\* status 'pending'
RECURSIVE SumPending(_, _, _)
SumPending(rows, productId, warehouseId) ==
    IF rows = <<>> THEN 0
    ELSE LET r == Head(rows)
             rest == SumPending(Tail(rows), productId, warehouseId)
         IN IF /\ r.productId = productId
               /\ r.warehouseId = warehouseId
               /\ r.status = "pending"
            THEN r.quantity + rest
            ELSE rest

\* the availability check with <= in place of <
InsufficientOrEqual(availableQuantity, quantity) == availableQuantity <= quantity

\* the availability check of reserve: true when the request cannot be met
Insufficient(availableQuantity, quantity) == availableQuantity < quantity

\* a reservation row inserted as confirmed
NewReservationConfirmed(data) ==
    [orderId |-> data.orderId, productId |-> data.productId,
     warehouseId |-> data.warehouseId, quantity |-> data.quantity,
     status |-> "confirmed"]

\* the row reserve inserts
NewReservation(data) ==
    [orderId |-> data.orderId, productId |-> data.productId,
     warehouseId |-> data.warehouseId, quantity |-> data.quantity,
     status |-> "pending"]

createInventoryReservedEvent(data) ==
    [eventType |-> "inventory.reserved", orderId |-> data.orderId,
     productId |-> data.productId, warehouseId |-> data.warehouseId,
     quantity |-> data.quantity]

createInventoryInsufficientEvent(data, availableQuantity) ==
    [eventType |-> "inventory.insufficient", orderId |-> data.orderId,
     productId |-> data.productId, warehouseId |-> data.warehouseId,
     requestedQuantity |-> data.quantity,
     availableQuantity |-> availableQuantity]

\* a reserve that takes a missing inventory row for a stock of zero
ReserveTxnMissingAsZero(inv, rows, data) ==
    LET key == <<data.productId, data.warehouseId>>
        quantity == IF key \in DOMAIN inv THEN inv[key] ELSE 0
        reservedQuantity == SumPending(rows, data.productId, data.warehouseId)
        availableQuantity == quantity - reservedQuantity
    IN IF Insufficient(availableQuantity, data.quantity)
       THEN [outcome |-> "ok", rows |-> rows,
             events |-> <<createInventoryInsufficientEvent(data, availableQuantity)>>]
       ELSE [outcome |-> "ok", rows |-> Append(rows, NewReservation(data)),
             events |-> <<createInventoryReservedEvent(data)>>]

\* reserve run as one uninterrupted transaction against the tables inv, rows:
\* the outcome, the rows after it and the events it publishes
ReserveTxn(inv, rows, data) ==
    LET key == <<data.productId, data.warehouseId>> IN
    IF key \notin DOMAIN inv
    THEN [outcome |-> "NotFoundError", rows |-> rows, events |-> <<>>]
    ELSE LET reservedQuantity == SumPending(rows, data.productId, data.warehouseId)
             availableQuantity == inv[key] - reservedQuantity
         IN IF Insufficient(availableQuantity, data.quantity)
            THEN [outcome |-> "ok", rows |-> rows,
                  events |-> <<createInventoryInsufficientEvent(data, availableQuantity)>>]
            ELSE [outcome |-> "ok", rows |-> Append(rows, NewReservation(data)),
                  events |-> <<createInventoryReservedEvent(data)>>]

\* an UPDATE that matches on the order alone
ReleaseRowsOfOrder(rows, orderId, productId) ==
    [i \in 1..Len(rows) |->
        IF rows[i].orderId = orderId /\ rows[i].status = "pending"
        THEN [rows[i] EXCEPT !.status = "released"]
        ELSE rows[i]]

\* an UPDATE that stops at the first pending row of (orderId, productId)
ReleaseFirstRow(rows, orderId, productId) ==
    LET hit == {i \in 1..Len(rows) :
                   /\ rows[i].orderId = orderId
                   /\ rows[i].productId = productId
                   /\ rows[i].status = "pending"}
    IN [i \in 1..Len(rows) |->
           IF i \in hit /\ \A j \in hit : i <= j
           THEN [rows[i] EXCEPT !.status = "released"]
           ELSE rows[i]]

\* the UPDATE of release: every pending row of (orderId, productId) becomes
\* released; the warehouseId and quantity of the request are not used
ReleaseRows(rows, orderId, productId) ==
    [i \in 1..Len(rows) |->
        IF /\ rows[i].orderId = orderId
           /\ rows[i].productId = productId
           /\ rows[i].status = "pending"
        THEN [rows[i] EXCEPT !.status = "released"]
        ELSE rows[i]]

\* an upsert that takes the quantity away from the stock instead of setting it
UpsertDecrement(inv, productId, warehouseId, quantity) ==
    [k \in DOMAIN inv \cup {<<productId, warehouseId>>} |->
        IF k = <<productId, warehouseId>>
        THEN (IF k \in DOMAIN inv THEN inv[k] ELSE 0) - quantity
        ELSE inv[k]]

\* upsert of one (productId, warehouseId) row, as update and batchUpdate do
Upsert(inv, productId, warehouseId, quantity) ==
    [k \in DOMAIN inv \cup {<<productId, warehouseId>>} |->
        IF k = <<productId, warehouseId>> THEN quantity ELSE inv[k]]

\* the loop of batchUpdate: the upserts of the list, in order
RECURSIVE BatchUpsert(_, _)
BatchUpsert(inv, updates) ==
    IF updates = <<>> THEN inv
    ELSE BatchUpsert(Upsert(inv, Head(updates).productId,
                            Head(updates).warehouseId, Head(updates).quantity),
                     Tail(updates))

\* the size check of batchUpdate
BatchSizeInvalid(updates) == Len(updates) = 0 \/ Len(updates) > MaxBatchSize

\* the foreign keys of the inventory table: an insert whose product or
\* warehouse does not exist is refused by the database
ForeignKeyViolation(a) ==
    a.productId \notin Products \/ a.warehouseId \notin Warehouses

\* the entries of the list whose statement fails
FailingEntries(updates) ==
    {k \in 1..Len(updates) : ForeignKeyViolation(updates[k])}

\* a transaction that keeps the upserts made before the failing entry
BatchTxnNoRollback(inv, updates) ==
    IF FailingEntries(updates) # {}
    THEN LET k == CHOOSE j \in FailingEntries(updates) :
                      \A l \in FailingEntries(updates) : j <= l
         IN [outcome |-> "DatabaseError",
             inv |-> BatchUpsert(inv, SubSeq(updates, 1, k - 1))]
    ELSE [outcome |-> "ok", inv |-> BatchUpsert(inv, updates)]

\* db.transaction around the loop of batchUpdate: the error of a failing
\* statement leaves the callback, the transaction is rolled back and the
\* error is thrown on to the caller
BatchTxn(inv, updates) ==
    IF FailingEntries(updates) # {}
    THEN [outcome |-> "DatabaseError", inv |-> inv]
    ELSE [outcome |-> "ok", inv |-> BatchUpsert(inv, updates)]

Request(orderId, productId, warehouseId, quantity) ==
    [orderId |-> orderId, productId |-> productId,
     warehouseId |-> warehouseId, quantity |-> quantity]

\* bodies of POST /api/v1/inventory/reserve: two orders competing for one
\* (product, warehouse), another warehouse, another product, and a pair
\* that has no inventory row
ReserveData ==
    {Request("o1", "P1", "W1", 1), Request("o2", "P1", "W1", 2),
     Request("o1", "P1", "W2", 1), Request("o2", "P2", "W1", 2),
     Request("o1", "P2", "W2", 1)}

\* bodies of POST /api/v1/inventory/release
ReleaseData ==
    {Request("o1", "P1", "W1", 1), Request("o2", "P1", "W2", 3),
     Request("o1", "P2", "W1", 1), Request("o2", "P2", "W1", 2)}

Adjustment(productId, warehouseId, quantity) ==
    [productId |-> productId, warehouseId |-> warehouseId, quantity |-> quantity]

\* bodies of PUT /api/v1/inventory/:productId: a quantity below what may be
\* reserved, a quantity of zero, and a pair that has no row yet
UpdateData ==
    {Adjustment("P1", "W1", 1), Adjustment("P1", "W2", 0),
     Adjustment("P2", "W2", 1)}

\* bodies of PATCH /api/v1/inventory/batch: an empty list, one entry, two
\* entries one of which creates a row, two entries the second of which names
\* a product that does not exist, and a list one entry too long
BatchData ==
    {<<>>,
     <<Adjustment("P1", "W1", 1)>>,
     <<Adjustment("P2", "W1", 0), Adjustment("P2", "W2", 1)>>,
     <<Adjustment("P1", "W2", 2), Adjustment("P9", "W1", 1)>>,
     [i \in 1..(MaxBatchSize + 1) |-> Adjustment("P1", "W2", 0)]}

IdleCall == [pc |-> "idle"]

NoCallInFlight == \A c \in Callers : calls[c].pc = "idle"

\* a reserve that takes the reserved quantity out of the stock
reserveDecrement(data) ==
    /\ NoCallInFlight
    /\ Len(productsQueue) < MaxEvents
    /\ LET t == ReserveTxn(inventory, inventoryReservations, data) IN
        /\ inventoryReservations' = t.rows
        /\ productsQueue' = productsQueue \o t.events
        /\ last' = [op |-> "reserve", data |-> data, outcome |-> t.outcome]
        /\ inventory' =
              IF t.rows # inventoryReservations
              THEN [inventory EXCEPT ![<<data.productId, data.warehouseId>>] =
                       @ - data.quantity]
              ELSE inventory
    /\ UNCHANGED <<calls, sagaVars>>

\* InventoryService.reserve, called with no other transaction in flight
reserve(data) ==
    /\ NoCallInFlight
    /\ Len(productsQueue) < MaxEvents
    /\ LET t == ReserveTxn(inventory, inventoryReservations, data) IN
        /\ inventoryReservations' = t.rows
        /\ productsQueue' = productsQueue \o t.events
        /\ last' = [op |-> "reserve", data |-> data, outcome |-> t.outcome]
    /\ UNCHANGED <<inventory, calls, sagaVars>>

\* InventoryService.release
release(data) ==
    /\ NoCallInFlight
    /\ inventoryReservations' =
          ReleaseRows(inventoryReservations, data.orderId, data.productId)
    /\ last' = [op |-> "release", data |-> data, outcome |-> "ok"]
    /\ UNCHANGED <<inventory, productsQueue, calls, sagaVars>>

\* InventoryService.update
update(productId, warehouseId, quantity) ==
    /\ NoCallInFlight
    /\ inventory' = Upsert(inventory, productId, warehouseId, quantity)
    /\ last' = [op |-> "update", outcome |-> "ok"]
    /\ UNCHANGED <<inventoryReservations, productsQueue, calls, sagaVars>>

\* InventoryService.batchUpdate
batchUpdate(updates) ==
    /\ NoCallInFlight
    /\ IF BatchSizeInvalid(updates)
       THEN /\ last' = [op |-> "batchUpdate", outcome |-> "ValidationError"]
            /\ UNCHANGED inventory
       ELSE LET t == BatchTxn(inventory, updates)
            IN /\ inventory' = t.inv
               /\ last' = IF t.outcome = "ok"
                          THEN [op |-> "batchUpdate", outcome |-> "ok",
                                count |-> Len(updates)]
                          ELSE [op |-> "batchUpdate", outcome |-> t.outcome]
    /\ UNCHANGED <<inventoryReservations, productsQueue, calls, sagaVars>>

(***************************************************************************)
(* InventoryService.reserve statement by statement.  The transaction runs  *)
(* at the database's default isolation and takes no lock: each statement   *)
(* reads what is committed when it runs, and the inserted row is visible   *)
(* to other transactions only once the transaction commits.                *)
(***************************************************************************)
InFlight == {c \in Callers : calls[c].pc # "idle"}

\* tx.query.inventory.findFirst
reserveFindInventory(c, data) ==
    /\ calls[c].pc = "idle"
    /\ Len(productsQueue) + Cardinality(InFlight) < MaxEvents
    /\ IF <<data.productId, data.warehouseId>> \in DOMAIN inventory
       THEN /\ calls' = [calls EXCEPT ![c] =
                    [pc |-> "found", data |-> data,
                     quantity |-> inventory[<<data.productId, data.warehouseId>>]]]
            /\ UNCHANGED last
       ELSE /\ last' = [op |-> "reserve", data |-> data, outcome |-> "NotFoundError"]
            /\ UNCHANGED calls
    /\ UNCHANGED <<inventory, inventoryReservations, productsQueue, sagaVars>>

\* the SELECT COALESCE(SUM(quantity), 0) over the pending rows
reserveSumPending(c) ==
    /\ calls[c].pc = "found"
    /\ calls' = [calls EXCEPT ![c] =
            [pc |-> "summed", data |-> calls[c].data, quantity |-> calls[c].quantity,
             reservedQuantity |-> SumPending(inventoryReservations,
                                             calls[c].data.productId,
                                             calls[c].data.warehouseId)]]
    /\ UNCHANGED <<inventory, inventoryReservations, productsQueue, last, sagaVars>>

\* the availability check, then either the inventory.insufficient event and
\* the return, or the insert (not yet committed) and the inventory.reserved
\* event
reserveCheck(c) ==
    /\ calls[c].pc = "summed"
    /\ LET data == calls[c].data
           availableQuantity == calls[c].quantity - calls[c].reservedQuantity
       IN IF Insufficient(availableQuantity, data.quantity)
          THEN /\ productsQueue' = Append(productsQueue,
                       createInventoryInsufficientEvent(data, availableQuantity))
               /\ calls' = [calls EXCEPT ![c] = IdleCall]
               /\ last' = [op |-> "reserve", data |-> data, outcome |-> "ok"]
          ELSE /\ productsQueue' = Append(productsQueue,
                       createInventoryReservedEvent(data))
               /\ calls' = [calls EXCEPT ![c] = [pc |-> "inserted", data |-> data]]
               /\ UNCHANGED last
    /\ UNCHANGED <<inventory, inventoryReservations, sagaVars>>

\* the commit of db.transaction
reserveCommit(c) ==
    /\ calls[c].pc = "inserted"
    /\ inventoryReservations' =
          Append(inventoryReservations, NewReservation(calls[c].data))
    /\ calls' = [calls EXCEPT ![c] = IdleCall]
    /\ last' = [op |-> "reserve", data |-> calls[c].data, outcome |-> "ok"]
    /\ UNCHANGED <<inventory, productsQueue, sagaVars>>

InitialInventory ==
    (<<"P1", "W1">> :> 2) @@ (<<"P1", "W2">> :> 1) @@ (<<"P2", "W1">> :> 3)

\* the warehouse that is active when the services start
DefaultWarehouseId == "W1"

\* the table warehouses when the services start
InitialWarehouses == [w \in Warehouses |-> w = DefaultWarehouseId]

\* the two consumers of products-service, each with its own cache
Consumers == {"order.created", "order.cancelled"}

\* this.defaultWarehouseId = null
InitWarehouses ==
    /\ warehouses = InitialWarehouses
    /\ defaultWarehouseId = [c \in Consumers |-> "null"]

\* where: eq(warehouses.isActive, true)
ActiveWarehouses(tbl) == {w \in DOMAIN tbl : tbl[w]}

\* orders-service and the queues before anything has happened
InitOrders ==
    /\ orders = <<>>
    /\ orderItems = <<>>
    /\ orderInventoryTracking = <<>>
    /\ creating = {}
    /\ ordersQueue = <<>>
    /\ paymentsQueue = <<>>
    /\ handlers = <<>>
    /\ clock = 0
    /\ requests = 0

InitLedger ==
    /\ inventory = InitialInventory
    /\ inventoryReservations = <<>>
    /\ productsQueue = <<>>
    /\ calls = [c \in Callers |-> IdleCall]
    /\ last = [op |-> "none", outcome |-> "ok"]
    /\ InitOrders
    /\ InitWarehouses

NextLedger ==
    \/ \E data \in ReserveData : reserve(data)
    \/ \E data \in ReleaseData : release(data)
    \/ \E a \in UpdateData : update(a.productId, a.warehouseId, a.quantity)
    \/ \E updates \in BatchData : batchUpdate(updates)

\* the ledger's operations, one call at a time
SpecLedger == InitLedger /\ [][NextLedger]_vars

NextReserve ==
    \/ \E c \in Callers, data \in ReserveData : reserveFindInventory(c, data)
    \/ \E c \in Callers : reserveSumPending(c)
    \/ \E c \in Callers : reserveCheck(c)
    \/ \E c \in Callers : reserveCommit(c)

\* concurrent reserve calls against an inventory nothing else changes
SpecReserve == InitLedger /\ [][NextReserve]_vars


(***************************************************************************)
(* orders-service: OrderService                                            *)
(***************************************************************************)
OrderStatus == {"pending", "confirmed", "processing", "shipped", "delivered",
                "cancelled", "refunded"}

Item(productId, quantity) == [productId |-> productId, quantity |-> quantity]

\* the row create inserts into orders
NewOrder(data) ==
    [status |-> "pending", notes |-> <<>>, cancelledAt |-> 0,
     paymentId |-> "none", transactionId |-> "none"]

\* tracking rows for the first line item only
NewTrackingFirst(orderId, items) ==
    [i \in 1..1 |->
        [orderId |-> orderId, productId |-> items[i].productId,
         inventoryReserved |-> FALSE]]

\* the rows create inserts into order_inventory_tracking
NewTracking(orderId, items) ==
    [i \in 1..Len(items) |->
        [orderId |-> orderId, productId |-> items[i].productId,
         inventoryReserved |-> FALSE]]

createOrderCreatedEvent(orderId, items) ==
    [eventType |-> "order.created", orderId |-> orderId, items |-> items]

\* an order.cancelled event that lists the first line item only
createOrderCancelledEventFirstItem(orderId, items, reason) ==
    [eventType |-> "order.cancelled", orderId |-> orderId,
     items |-> SubSeq(items, 1, 1), reason |-> reason]

createOrderCancelledEvent(orderId, items, reason) ==
    [eventType |-> "order.cancelled", orderId |-> orderId, items |-> items,
     reason |-> reason]

Failed(tbl) == [outcome |-> "NotFoundError", orders |-> tbl, published |-> <<>>]

\* a confirmOrder that publishes order.confirmed whether or not a row was
\* updated
confirmOrderPublishAlways(tbl, orderId) ==
    [outcome |-> IF orderId \in DOMAIN tbl THEN "ok" ELSE "NotFoundError",
     orders |-> [o \in DOMAIN tbl |->
                    IF o = orderId THEN [tbl[o] EXCEPT !.status = "confirmed"]
                    ELSE tbl[o]],
     published |-> <<[eventType |-> "order.confirmed", orderId |-> orderId]>>]

\* OrderService.confirmOrder on the table tbl: the outcome, the table after
\* it and the events it publishes
confirmOrder(tbl, orderId) ==
    IF orderId \notin DOMAIN tbl THEN Failed(tbl)
    ELSE [outcome |-> "ok",
          orders |-> [tbl EXCEPT ![orderId].status = "confirmed"],
          published |-> <<[eventType |-> "order.confirmed", orderId |-> orderId]>>]

\* a cancelOrder that overwrites the notes with the reason
cancelOrderOverwriteNotes(tbl, items, orderId, reason, now) ==
    IF orderId \notin DOMAIN tbl THEN Failed(tbl)
    ELSE [outcome |-> "ok",
          orders |-> [tbl EXCEPT ![orderId] =
                         [@ EXCEPT !.status = "cancelled",
                                   !.cancelledAt = now,
                                   !.notes = <<reason>>]],
          published |-> <<createOrderCancelledEvent(orderId, items[orderId], reason)>>]

\* a cancelOrder that updates the order and publishes nothing
cancelOrderNoPublish(tbl, items, orderId, reason, now) ==
    IF orderId \notin DOMAIN tbl THEN Failed(tbl)
    ELSE [outcome |-> "ok",
          orders |-> [tbl EXCEPT ![orderId] =
                         [@ EXCEPT !.status = "cancelled",
                                   !.cancelledAt = now,
                                   !.notes = Append(@, reason)]],
          published |-> <<>>]

\* OrderService.cancelOrder
cancelOrder(tbl, items, orderId, reason, now) ==
    IF orderId \notin DOMAIN tbl THEN Failed(tbl)
    ELSE [outcome |-> "ok",
          orders |-> [tbl EXCEPT ![orderId] =
                         [@ EXCEPT !.status = "cancelled",
                                   !.cancelledAt = now,
                                   !.notes = Append(@, reason)]],
          published |-> <<createOrderCancelledEvent(orderId, items[orderId], reason)>>]

\* an updateOrderStatus that sets the status and drops the payment references
updateOrderStatusOnly(tbl, orderId, status, paymentId, transactionId) ==
    IF orderId \notin DOMAIN tbl THEN Failed(tbl)
    ELSE [outcome |-> "ok",
          orders |-> [tbl EXCEPT ![orderId].status = status],
          published |-> <<>>]

\* OrderService.updateOrderStatus
updateOrderStatus(tbl, orderId, status, paymentId, transactionId) ==
    IF orderId \notin DOMAIN tbl THEN Failed(tbl)
    ELSE [outcome |-> "ok",
          orders |-> [tbl EXCEPT ![orderId] =
                         [@ EXCEPT !.status = status,
                                   !.paymentId =
                                       IF paymentId # "none" THEN paymentId ELSE @,
                                   !.transactionId =
                                       IF transactionId # "none" THEN transactionId
                                       ELSE @]],
          published |-> <<>>]

\* OrderService.shipOrder
shipOrder(tbl, orderId) ==
    IF orderId \notin DOMAIN tbl THEN Failed(tbl)
    ELSE [outcome |-> "ok",
          orders |-> [tbl EXCEPT ![orderId].status = "shipped"],
          published |-> <<[eventType |-> "order.shipped", orderId |-> orderId]>>]

\* a markInventoryReserved that marks every row of the order
markInventoryReservedOfOrder(tracking, orderId, productId) ==
    [i \in 1..Len(tracking) |->
        IF tracking[i].orderId = orderId
        THEN [tracking[i] EXCEPT !.inventoryReserved = TRUE]
        ELSE tracking[i]]

\* a markInventoryReserved that toggles the flag
markInventoryReservedToggle(tracking, orderId, productId) ==
    [i \in 1..Len(tracking) |->
        IF tracking[i].orderId = orderId /\ tracking[i].productId = productId
        THEN [tracking[i] EXCEPT !.inventoryReserved = ~@]
        ELSE tracking[i]]

\* OrderService.markInventoryReserved
markInventoryReserved(tracking, orderId, productId) ==
    [i \in 1..Len(tracking) |->
        IF tracking[i].orderId = orderId /\ tracking[i].productId = productId
        THEN [tracking[i] EXCEPT !.inventoryReserved = TRUE]
        ELSE tracking[i]]

\* a check that forgets the order without tracking rows
checkAllInventoryReservedEvery(tracking, orderId) ==
    LET trackingRecords == SelectSeq(tracking, LAMBDA r : r.orderId = orderId)
    IN \A i \in 1..Len(trackingRecords) : trackingRecords[i].inventoryReserved

\* OrderService.checkAllInventoryReserved
checkAllInventoryReserved(tracking, orderId) ==
    LET trackingRecords == SelectSeq(tracking, LAMBDA r : r.orderId = orderId)
    IN IF Len(trackingRecords) = 0
       THEN FALSE
       ELSE \A i \in 1..Len(trackingRecords) :
                trackingRecords[i].inventoryReserved

\* the events of the exchange orders that reach the queue
\* products-service.orders
IsBound(e) == e.eventType \in {"order.created", "order.cancelled"}

Routed(events) == SelectSeq(events, IsBound)

\* bodies of POST /api/v1/orders: a second line item that cannot be reserved,
\* a first line item that cannot be reserved, and an order that can be
\* reserved in full
ScenarioA == [items |-> <<Item("P1", 3), Item("P2", 5)>>]

CreateData ==
    {ScenarioA,
     [items |-> <<Item("P2", 5), Item("P1", 3)>>],
     [items |-> <<Item("P1", 3), Item("P2", 2)>>]}

\* OrderService.create up to the commit of its transaction, the database
\* drawing the new id from ids
createCommitOf(ids, data) ==
    /\ ids \ DOMAIN orders # {}
    /\ LET id == CHOOSE o \in ids \ DOMAIN orders : TRUE
       IN /\ orders' = orders @@ (id :> NewOrder(data))
          /\ orderItems' = orderItems @@ (id :> data.items)
          /\ orderInventoryTracking' =
                orderInventoryTracking \o NewTracking(id, data.items)
          /\ creating' = creating \cup {id}
    /\ UNCHANGED <<ledgerVars, productsQueue, last, ordersQueue, paymentsQueue,
                   handlers, clock, requests, warehouseVars>>

createCommit(data) == createCommitOf(NewOrderIds, data)

\* OrderService.create from the commit on: order.created is published
createPublish(orderId) ==
    /\ orderId \in creating
    /\ creating' = creating \ {orderId}
    /\ ordersQueue' =
          Append(ordersQueue, createOrderCreatedEvent(orderId, orderItems[orderId]))
    /\ last' = [op |-> "create", orderId |-> orderId, outcome |-> "ok"]
    /\ UNCHANGED <<ledgerVars, productsQueue, orders, orderItems,
                   orderInventoryTracking, paymentsQueue, handlers, clock,
                   requests, warehouseVars>>

\* POST /api/v1/orders/:id/cancel
postCancel(orderId) ==
    /\ requests < MaxRequests
    /\ requests' = requests + 1
    /\ LET r == cancelOrder(orders, orderItems, orderId, "requested", clock + 1)
       IN /\ orders' = r.orders
          /\ ordersQueue' = ordersQueue \o Routed(r.published)
          /\ clock' = IF r.outcome = "ok" THEN clock + 1 ELSE clock
          /\ last' = [op |-> "cancelOrder", orderId |-> orderId,
                      outcome |-> r.outcome, published |-> r.published]
    /\ UNCHANGED <<ledgerVars, productsQueue, orderItems, orderInventoryTracking,
                   creating, paymentsQueue, handlers, warehouseVars>>

\* POST /api/v1/orders/:id/confirm
postConfirm(orderId) ==
    /\ requests < MaxRequests
    /\ requests' = requests + 1
    /\ LET r == confirmOrder(orders, orderId)
       IN /\ orders' = r.orders
          /\ ordersQueue' = ordersQueue \o Routed(r.published)
          /\ last' = [op |-> "confirmOrder", orderId |-> orderId,
                      outcome |-> r.outcome, published |-> r.published]
    /\ UNCHANGED <<ledgerVars, productsQueue, orderItems, orderInventoryTracking,
                   creating, paymentsQueue, handlers, clock, warehouseVars>>

\* a ship request: a call of OrderService.shipOrder
shipRequest(orderId) ==
    /\ requests < MaxRequests
    /\ requests' = requests + 1
    /\ LET r == shipOrder(orders, orderId)
       IN /\ orders' = r.orders
          /\ ordersQueue' = ordersQueue \o Routed(r.published)
          /\ last' = [op |-> "shipOrder", orderId |-> orderId,
                      outcome |-> r.outcome, published |-> r.published]
    /\ UNCHANGED <<ledgerVars, productsQueue, orderItems, orderInventoryTracking,
                   creating, paymentsQueue, handlers, clock, warehouseVars>>

\* payments-service publishes payment.completed or payment.failed naming
\* orderId
publishPayment(eventType, orderId) ==
    /\ requests < MaxRequests
    /\ requests' = requests + 1
    /\ paymentsQueue' =
          Append(paymentsQueue,
                 IF eventType = "payment.completed"
                 THEN [eventType |-> eventType, orderId |-> orderId,
                       paymentId |-> "pay1", transactionId |-> "tx1"]
                 ELSE [eventType |-> eventType, orderId |-> orderId,
                       paymentId |-> "pay1", error |-> "declined"])
    /\ UNCHANGED <<ledgerVars, productsQueue, last, ordersVars, ordersQueue,
                   handlers, warehouseVars>>

\* a payment event for an order that exists
paymentEvent(eventType, orderId) ==
    /\ orderId \in DOMAIN orders
    /\ publishPayment(eventType, orderId)

(***************************************************************************)
(* orders-service: the consume loops of its two queues.  A handler is one  *)
(* call of OrderService; a handler that throws has its message put back.   *)
(***************************************************************************)

\* InventoryReservedConsumer.handle
handleInventoryReserved(event) ==
    /\ orderInventoryTracking' =
          markInventoryReserved(orderInventoryTracking, event.orderId,
                                event.productId)
    /\ productsQueue' = Tail(productsQueue)
    /\ last' = [op |-> "markInventoryReserved", orderId |-> event.orderId,
                outcome |-> "ok", published |-> <<>>]
    /\ UNCHANGED <<orders, ordersQueue, clock>>

\* InventoryInsufficientConsumer.handle
handleInventoryInsufficient(event) ==
    LET r == cancelOrder(orders, orderItems, event.orderId,
                         "insufficient", clock + 1)
    IN /\ orders' = r.orders
       /\ ordersQueue' = ordersQueue \o Routed(r.published)
       /\ clock' = IF r.outcome = "ok" THEN clock + 1 ELSE clock
       /\ productsQueue' =
             IF r.outcome = "ok" THEN Tail(productsQueue) ELSE productsQueue
       /\ last' = [op |-> "cancelOrder", orderId |-> event.orderId,
                   outcome |-> r.outcome, published |-> r.published]
       /\ UNCHANGED orderInventoryTracking

\* a message of orders-service.products that the callback acknowledges
\* without calling a handler: its event type is not one it dispatches
ackProducts ==
    /\ productsQueue' = Tail(productsQueue)
    /\ UNCHANGED <<orders, orderInventoryTracking, ordersQueue, clock, last>>

\* a callback that takes every event that is not inventory.reserved for
\* inventory.insufficient
consumeProductsElseInsufficient ==
    /\ productsQueue # <<>>
    /\ LET event == Head(productsQueue)
       IN IF event.eventType = "inventory.reserved"
          THEN handleInventoryReserved(event)
          ELSE handleInventoryInsufficient(event)
    /\ UNCHANGED <<ledgerVars, orderItems, creating, paymentsQueue, handlers,
                   requests, warehouseVars>>

\* the consume callback of the queue orders-service.products
consumeProducts ==
    /\ productsQueue # <<>>
    /\ LET event == Head(productsQueue)
       IN IF event.eventType = "inventory.reserved"
          THEN handleInventoryReserved(event)
          ELSE IF event.eventType = "inventory.insufficient"
          THEN handleInventoryInsufficient(event)
          ELSE ackProducts
    /\ UNCHANGED <<ledgerVars, orderItems, creating, paymentsQueue, handlers,
                   requests, warehouseVars>>

\* a handler of payment.completed that swallows the error of
\* updateOrderStatus, so that its message is acknowledged
handlePaymentCompletedSwallow(event) ==
    LET r == updateOrderStatus(orders, event.orderId, "processing",
                               event.paymentId, event.transactionId)
    IN /\ orders' = r.orders
       /\ paymentsQueue' = Tail(paymentsQueue)
       /\ last' = [op |-> "updateOrderStatus", orderId |-> event.orderId,
                   outcome |-> r.outcome, published |-> r.published]
       /\ UNCHANGED <<ordersQueue, clock>>

\* PaymentCompletedConsumer.handle
handlePaymentCompleted(event) ==
    LET r == updateOrderStatus(orders, event.orderId, "processing",
                               event.paymentId, event.transactionId)
    IN /\ orders' = r.orders
       /\ paymentsQueue' =
             IF r.outcome = "ok" THEN Tail(paymentsQueue) ELSE paymentsQueue
       /\ last' = [op |-> "updateOrderStatus", orderId |-> event.orderId,
                   outcome |-> r.outcome, published |-> r.published]
       /\ UNCHANGED <<ordersQueue, clock>>

\* PaymentFailedConsumer.handle
handlePaymentFailed(event) ==
    LET r == cancelOrder(orders, orderItems, event.orderId,
                         "payment failed", clock + 1)
    IN /\ orders' = r.orders
       /\ ordersQueue' = ordersQueue \o Routed(r.published)
       /\ clock' = IF r.outcome = "ok" THEN clock + 1 ELSE clock
       /\ paymentsQueue' =
             IF r.outcome = "ok" THEN Tail(paymentsQueue) ELSE paymentsQueue
       /\ last' = [op |-> "cancelOrder", orderId |-> event.orderId,
                   outcome |-> r.outcome, published |-> r.published]

\* a message of orders-service.payments that the callback acknowledges
\* without calling a handler
ackPayments ==
    /\ paymentsQueue' = Tail(paymentsQueue)
    /\ UNCHANGED <<orders, ordersQueue, clock, last>>

\* the consume callback of the queue orders-service.payments
consumePayments ==
    /\ paymentsQueue # <<>>
    /\ LET event == Head(paymentsQueue)
       IN IF event.eventType = "payment.completed"
          THEN handlePaymentCompleted(event)
          ELSE IF event.eventType = "payment.failed"
          THEN handlePaymentFailed(event)
          ELSE ackPayments
    /\ UNCHANGED <<ledgerVars, productsQueue, orderItems, orderInventoryTracking,
                   creating, handlers, requests, warehouseVars>>

(***************************************************************************)
(* products-service: the consume loop of the queue products-service.orders.*)
(* The callback is asynchronous and nothing limits the deliveries that are *)
(* not yet acknowledged: a delivery starts its handler while the handlers  *)
(* of earlier deliveries are still between two of their awaits.            *)
(***************************************************************************)

\* a warehouse id that JavaScript's || passes over: absent or empty
NoWarehouse(r) == "warehouseId" \notin DOMAIN r \/ r.warehouseId = ""

\* the order-level warehouse tried before the line item's
ResolveWarehouseOrderFirst(item, payload, default) ==
    IF ~NoWarehouse(payload) THEN payload.warehouseId
    ELSE IF ~NoWarehouse(item) THEN item.warehouseId
    ELSE default

\* item.warehouseId || payload.warehouseId || defaultWarehouseId
ResolveWarehouse(item, payload, default) ==
    IF ~NoWarehouse(item) THEN item.warehouseId
    ELSE IF ~NoWarehouse(payload) THEN payload.warehouseId
    ELSE default

Remove(seq, h) == [i \in 1..(Len(seq) - 1) |-> IF i < h THEN seq[i] ELSE seq[i + 1]]

\* the event types the callback of products-service.orders dispatches
Dispatches(event) == event.eventType \in Consumers

\* handle up to the await in getDefaultWarehouseId: a cached default is
\* returned at once, otherwise the handler waits for the query on warehouses
StartHandler(event, cache) ==
    [event |-> event, i |-> 1,
     defaultWarehouseId |->
         IF Dispatches(event) THEN cache[event.eventType] ELSE "null"]

\* a message is delivered and its handler starts
deliverOrders ==
    /\ ordersQueue # <<>>
    /\ handlers' = Append(handlers,
                          StartHandler(Head(ordersQueue), defaultWarehouseId))
    /\ ordersQueue' = Tail(ordersQueue)
    /\ UNCHANGED <<ledgerVars, productsQueue, last, ordersVars, paymentsQueue,
                   requests, warehouseVars>>

\* a handler that gives up the remaining line items once a line item turned
\* out insufficient
handleOrderCreatedItemStopAtInsufficient(h) ==
    LET event == handlers[h].event
        item == event.items[handlers[h].i]
        data == [orderId |-> event.orderId, productId |-> item.productId,
                 warehouseId |-> ResolveWarehouse(item, event,
                                                  handlers[h].defaultWarehouseId),
                 quantity |-> item.quantity]
        t == ReserveTxn(inventory, inventoryReservations, data)
    IN /\ inventoryReservations' = t.rows
       /\ productsQueue' = productsQueue \o t.events
       /\ last' = [op |-> "reserve", data |-> data, outcome |-> t.outcome]
       /\ IF t.outcome = "ok"
          THEN /\ handlers' = [handlers EXCEPT ![h].i =
                      IF t.rows = inventoryReservations
                      THEN Len(event.items) + 1 ELSE @ + 1]
               /\ UNCHANGED ordersQueue
          ELSE /\ handlers' = Remove(handlers, h)
               /\ ordersQueue' = <<event>> \o ordersQueue

\* a handler whose failure drops the message: nack without requeue
handleOrderCreatedItemNoRequeue(h) ==
    LET event == handlers[h].event
        item == event.items[handlers[h].i]
        data == [orderId |-> event.orderId, productId |-> item.productId,
                 warehouseId |-> ResolveWarehouse(item, event,
                                                  handlers[h].defaultWarehouseId),
                 quantity |-> item.quantity]
        t == ReserveTxn(inventory, inventoryReservations, data)
    IN /\ inventoryReservations' = t.rows
       /\ productsQueue' = productsQueue \o t.events
       /\ last' = [op |-> "reserve", data |-> data, outcome |-> t.outcome]
       /\ IF t.outcome = "ok"
          THEN /\ handlers' = [handlers EXCEPT ![h].i = @ + 1]
               /\ UNCHANGED ordersQueue
          ELSE /\ handlers' = Remove(handlers, h)
               /\ UNCHANGED ordersQueue

\* a handler that releases what it reserved for the order when a later line
\* item fails
handleOrderCreatedItemCompensating(h) ==
    LET event == handlers[h].event
        item == event.items[handlers[h].i]
        data == [orderId |-> event.orderId, productId |-> item.productId,
                 warehouseId |-> ResolveWarehouse(item, event,
                                                  handlers[h].defaultWarehouseId),
                 quantity |-> item.quantity]
        t == ReserveTxn(inventory, inventoryReservations, data)
    IN /\ productsQueue' = productsQueue \o t.events
       /\ last' = [op |-> "reserve", data |-> data, outcome |-> t.outcome]
       /\ IF t.outcome = "ok"
          THEN /\ inventoryReservations' = t.rows
               /\ handlers' = [handlers EXCEPT ![h].i = @ + 1]
               /\ UNCHANGED ordersQueue
          ELSE /\ inventoryReservations' =
                     [i \in 1..Len(t.rows) |->
                         IF t.rows[i].orderId = event.orderId
                         THEN [t.rows[i] EXCEPT !.status = "released"]
                         ELSE t.rows[i]]
               /\ handlers' = Remove(handlers, h)
               /\ ordersQueue' = <<event>> \o ordersQueue

\* OrderCreatedConsumer.handle: the reserve of the next line item
handleOrderCreatedItem(h) ==
    LET event == handlers[h].event
        item == event.items[handlers[h].i]
        data == [orderId |-> event.orderId, productId |-> item.productId,
                 warehouseId |-> ResolveWarehouse(item, event,
                                                  handlers[h].defaultWarehouseId),
                 quantity |-> item.quantity]
        t == ReserveTxn(inventory, inventoryReservations, data)
    IN /\ inventoryReservations' = t.rows
       /\ productsQueue' = productsQueue \o t.events
       /\ last' = [op |-> "reserve", data |-> data, outcome |-> t.outcome]
       /\ IF t.outcome = "ok"
          THEN /\ handlers' = [handlers EXCEPT ![h].i = @ + 1]
               /\ UNCHANGED ordersQueue
          ELSE /\ handlers' = Remove(handlers, h)
               /\ ordersQueue' = <<event>> \o ordersQueue

\* OrderCancelledConsumer.handle: the release of the next line item
handleOrderCancelledItem(h) ==
    LET event == handlers[h].event
        item == event.items[handlers[h].i]
        data == [orderId |-> event.orderId, productId |-> item.productId,
                 warehouseId |-> ResolveWarehouse(item, event,
                                                  handlers[h].defaultWarehouseId),
                 quantity |-> item.quantity]
    IN /\ inventoryReservations' =
             ReleaseRows(inventoryReservations, data.orderId, data.productId)
       /\ last' = [op |-> "release", data |-> data, outcome |-> "ok"]
       /\ handlers' = [handlers EXCEPT ![h].i = @ + 1]
       /\ UNCHANGED <<productsQueue, ordersQueue>>

\* getDefaultWarehouseId from its await on: findFirst has no order, so it
\* returns any active warehouse; with none the handler throws and the
\* message is put back
getDefaultWarehouseId(h) ==
    LET event == handlers[h].event
        active == ActiveWarehouses(warehouses)
    IN /\ h \in 1..Len(handlers)
       /\ Dispatches(event)
       /\ handlers[h].defaultWarehouseId = "null"
       /\ IF active = {}
          THEN /\ handlers' = Remove(handlers, h)
               /\ ordersQueue' = <<event>> \o ordersQueue
               /\ UNCHANGED defaultWarehouseId
          ELSE /\ \E w \in active :
                     /\ defaultWarehouseId' =
                           [defaultWarehouseId EXCEPT ![event.eventType] = w]
                     /\ handlers' =
                           [handlers EXCEPT ![h].defaultWarehouseId = w]
               /\ UNCHANGED ordersQueue
       /\ UNCHANGED <<ledgerVars, productsQueue, last, ordersVars,
                      paymentsQueue, requests, warehouses>>

\* a handler in flight runs its loop up to the next await
handleItem(h) ==
    /\ h \in 1..Len(handlers)
    /\ Dispatches(handlers[h].event)
    /\ handlers[h].defaultWarehouseId # "null"
    /\ handlers[h].i <= Len(handlers[h].event.items)
    /\ IF handlers[h].event.eventType = "order.created"
       THEN handleOrderCreatedItem(h)
       ELSE handleOrderCancelledItem(h)
    /\ UNCHANGED <<inventory, calls, ordersVars, paymentsQueue, requests,
                   warehouseVars>>

\* handle: a handler in flight runs up to its next await
handle(h) == getDefaultWarehouseId(h) \/ handleItem(h)

\* the handler has returned: channel.ack
ackOrders(h) ==
    /\ h \in 1..Len(handlers)
    /\ IF Dispatches(handlers[h].event)
       THEN /\ handlers[h].defaultWarehouseId # "null"
            /\ handlers[h].i > Len(handlers[h].event.items)
       ELSE TRUE
    /\ handlers' = Remove(handlers, h)
    /\ UNCHANGED <<ledgerVars, productsQueue, last, ordersVars, ordersQueue,
                   paymentsQueue, requests, warehouseVars>>

\* at-least-once delivery: the channel closes before the ack of a handler
\* that has returned reaches the broker, and the broker requeues the message
redeliverOrders(h) ==
    /\ requests < MaxRequests
    /\ requests' = requests + 1
    /\ h \in 1..Len(handlers)
    /\ handlers[h].i > Len(handlers[h].event.items)
    /\ handlers' = Remove(handlers, h)
    /\ ordersQueue' = <<handlers[h].event>> \o ordersQueue
    /\ UNCHANGED <<ledgerVars, productsQueue, last, ordersVars, paymentsQueue,
                   warehouseVars>>

\* the stock of the default warehouse
SagaInventory == (<<"P1", "W1">> :> 10) @@ (<<"P2", "W1">> :> 2)

Init ==
    /\ inventory = SagaInventory
    /\ inventoryReservations = <<>>
    /\ productsQueue = <<>>
    /\ calls = [c \in Callers |-> IdleCall]
    /\ last = [op |-> "none", outcome |-> "ok"]
    /\ InitOrders
    /\ InitWarehouses

Next ==
    \/ \E data \in CreateData : createCommit(data)
    \/ \E o \in OrderIds : createPublish(o)
    \/ \E o \in OrderIds : postCancel(o)
    \/ \E o \in OrderIds : postConfirm(o)
    \/ \E o \in OrderIds : shipRequest(o)
    \/ \E t \in {"payment.completed", "payment.failed"}, o \in OrderIds :
          paymentEvent(t, o)
    \/ consumeProducts
    \/ consumePayments
    \/ deliverOrders
    \/ \E h \in 1..Len(handlers) : handle(h)
    \/ \E h \in 1..Len(handlers) : ackOrders(h)

\* the saga: both services, their queues, and the requests and payment
\* events that reach orders-service
Spec == Init /\ [][Next]_vars

\* stocks of the default warehouse: that of scenario A, one that is short of
\* P1 instead of P2, and one that covers every order
StockData ==
    {SagaInventory,
     (<<"P1", "W1">> :> 2) @@ (<<"P2", "W1">> :> 5),
     (<<"P1", "W1">> :> 10) @@ (<<"P2", "W1">> :> 5)}

InitA ==
    /\ inventory \in StockData
    /\ inventoryReservations = <<>>
    /\ productsQueue = <<>>
    /\ calls = [c \in Callers |-> IdleCall]
    /\ last = [op |-> "none", outcome |-> "ok"]
    /\ InitOrders
    /\ InitWarehouses

NextA ==
    \/ \E data \in CreateData : createCommit(data)
    \/ \E o \in OrderIds : createPublish(o)
    \/ consumeProducts
    \/ deliverOrders
    \/ \E h \in 1..Len(handlers) : handle(h)
    \/ \E h \in 1..Len(handlers) : ackOrders(h)

\* the saga of one order left to itself, with no request and no payment
\* event; every consume loop keeps running, so a step that can be taken is
\* eventually taken.  Scenario A is the order {P1 x 3, P2 x 5} against the
\* stock P1 = 10, P2 = 2.
SpecA == InitA /\ [][NextA]_vars /\ WF_vars(NextA)

NextD ==
    \/ NextA
    \/ \E h \in 1..Len(handlers) : redeliverOrders(h)

\* the saga of one order when the broker delivers a message of
\* products-service.orders more than once
SpecD == Init /\ [][NextD]_vars

NextCancel ==
    \/ NextA
    \/ \E o \in OrderIds : postCancel(o)
    \/ \E o \in OrderIds : paymentEvent("payment.failed", o)
    \/ consumePayments

\* the saga of one order with every caller of cancelOrder: the cancel route
\* and the handlers of inventory.insufficient and payment.failed
SpecCancel == Init /\ [][NextCancel]_vars

\* bodies of POST /api/v1/orders: those above, one line item, and two line
\* items that name the same product
CreateBodies ==
    CreateData \cup {[items |-> <<Item("P2", 1)>>],
                     [items |-> <<Item("P1", 1), Item("P1", 2)>>]}

NextCreate ==
    \/ \E data \in CreateBodies : createCommitOf(OrderIds, data)
    \/ \E o \in OrderIds : createPublish(o)
    \/ consumeProducts
    \/ deliverOrders
    \/ \E h \in 1..Len(handlers) : handle(h)
    \/ \E h \in 1..Len(handlers) : ackOrders(h)

\* the creation of two orders and their reservation
SpecCreate == Init /\ [][NextCreate]_vars

\* a stock with no inventory row for P2
StockWithoutP2 == (<<"P1", "W1">> :> 10)

\* bodies whose handler fails on its first line item, and one whose handler
\* succeeds
AckData ==
    {[items |-> <<Item("P2", 5), Item("P1", 3)>>],
     [items |-> <<Item("P2", 1)>>],
     [items |-> <<Item("P1", 3)>>]}

InitAck ==
    /\ inventory = StockWithoutP2
    /\ inventoryReservations = <<>>
    /\ productsQueue = <<>>
    /\ calls = [c \in Callers |-> IdleCall]
    /\ last = [op |-> "none", outcome |-> "ok"]
    /\ InitOrders
    /\ InitWarehouses

NextAck ==
    \/ \E data \in AckData : createCommit(data)
    \/ \E o \in OrderIds : createPublish(o)
    \/ \E t \in {"payment.completed", "payment.failed"}, o \in OrderIds :
          publishPayment(t, o)
    \/ consumeProducts
    \/ consumePayments
    \/ deliverOrders
    \/ \E h \in 1..Len(handlers) : handle(h)
    \/ \E h \in 1..Len(handlers) : ackOrders(h)

\* the consume loops when handlers throw: order.created names a product with
\* no inventory row, payment events name an order that does not exist (yet)
SpecAck == InitAck /\ [][NextAck]_vars

\* a body of POST /api/v1/orders that the stock covers twice over
ReservableData == {[items |-> <<Item("P1", 3), Item("P2", 1)>>]}

NextB ==
    \/ \E data \in ReservableData : createCommitOf(OrderIds, data)
    \/ \E o \in OrderIds : createPublish(o)
    \/ consumeProducts
    \/ deliverOrders
    \/ \E h \in 1..Len(handlers) : handle(h)
    \/ \E h \in 1..Len(handlers) : ackOrders(h)
    \/ \E o \in OrderIds : paymentEvent("payment.completed", o)
    \/ consumePayments

\* two orders that can both be reserved in full, and the payment.completed
\* events of payments-service
SpecB == Init /\ [][NextB]_vars

NextC ==
    \/ NextA
    \/ \E t \in {"payment.completed", "payment.failed"}, o \in OrderIds :
          paymentEvent(t, o)
    \/ consumePayments

\* the saga of one order with the events of payments-service and no request:
\* the consume loops keep running, payments-service publishes what it will
SpecC ==
    Init /\ [][NextC]_vars /\ WF_vars(NextA) /\ WF_vars(consumePayments)

(***************************************************************************)
(* Properties of the inventory ledger.                                     *)
(***************************************************************************)

\* the quantity held by the pending reservations of one (product, warehouse)
PendingQuantity(rows, productId, warehouseId) ==
    LET idx == {i \in 1..Len(rows) :
                   /\ rows[i].productId = productId
                   /\ rows[i].warehouseId = warehouseId
                   /\ rows[i].status = "pending"}
        RECURSIVE Total(_)
        Total(S) == IF S = {} THEN 0
                    ELSE LET i == CHOOSE x \in S : TRUE
                         IN rows[i].quantity + Total(S \ {i})
    IN Total(idx)

HasPending(rows, orderId, productId) ==
    \E i \in 1..Len(rows) :
        /\ rows[i].orderId = orderId
        /\ rows[i].productId = productId
        /\ rows[i].status = "pending"

\* C1 (no oversell): with the on-hand quantity of every (product, warehouse)
\* left as it was, however the statements of concurrent reserve calls
\* interleave, the pending reservations of a pair never add up to more than
\* its on-hand quantity.
C1_NoOversell ==
    \A k \in DOMAIN inventory :
        /\ inventory[k] = InitialInventory[k]
        /\ PendingQuantity(inventoryReservations, k[1], k[2]) <= inventory[k]

\* C2 (ledger invariant): after any sequence of reserve, release, update and
\* batchUpdate, every (product, warehouse) that has an inventory row holds at
\* least the quantity of its pending reservations.
C2_LedgerInvariant ==
    \A p \in Products, w \in Warehouses :
        <<p, w>> \in DOMAIN inventory =>
            inventory[<<p, w>>] >= PendingQuantity(inventoryReservations, p, w)

\* C3 (reservation determinism): a reserve call that runs alone against a
\* pair that has an inventory row, with available = on-hand quantity minus
\* pending quantity, appends exactly one pending reservation of the requested
\* quantity for the order and publishes exactly one inventory.reserved when
\* available >= quantity; otherwise it leaves the reservations as they are
\* and publishes exactly one inventory.insufficient carrying available and
\* the requested quantity.
C3_Step ==
    (last'.op = "reserve" /\ last'.outcome = "ok") =>
        LET d == last'.data
            available == inventory[<<d.productId, d.warehouseId>>]
                           - PendingQuantity(inventoryReservations,
                                             d.productId, d.warehouseId)
        IN IF available >= d.quantity
           THEN /\ inventoryReservations' =
                      Append(inventoryReservations,
                             [orderId |-> d.orderId, productId |-> d.productId,
                              warehouseId |-> d.warehouseId,
                              quantity |-> d.quantity, status |-> "pending"])
                /\ productsQueue' =
                      Append(productsQueue,
                             [eventType |-> "inventory.reserved",
                              orderId |-> d.orderId, productId |-> d.productId,
                              warehouseId |-> d.warehouseId,
                              quantity |-> d.quantity])
           ELSE /\ inventoryReservations' = inventoryReservations
                /\ productsQueue' =
                      Append(productsQueue,
                             [eventType |-> "inventory.insufficient",
                              orderId |-> d.orderId, productId |-> d.productId,
                              warehouseId |-> d.warehouseId,
                              requestedQuantity |-> d.quantity,
                              availableQuantity |-> available])

C3_ReservationDeterminism == [][C3_Step]_vars

\* a reserve call has been refused for want of stock on a pair some of whose
\* stock is held by a pending reservation
C3_Witness ==
    /\ last.op = "reserve" /\ last.outcome = "ok"
    /\ productsQueue # <<>>
    /\ productsQueue[Len(productsQueue)].eventType = "inventory.insufficient"
    /\ productsQueue[Len(productsQueue)].availableQuantity = 0
    /\ PendingQuantity(inventoryReservations, last.data.productId,
                       last.data.warehouseId) > 0

\* C4 (release idempotence): once release has run for an (order, product),
\* running it again leaves the reservation table as the first call left it;
\* and a release for a pair that has no pending reservation changes no row
\* and ends without an error.
C4_Step ==
    last'.op = "release" =>
        LET d == last'.data IN
        /\ last'.outcome = "ok"
        /\ ReleaseRows(inventoryReservations', d.orderId, d.productId)
              = inventoryReservations'
        /\ ~HasPending(inventoryReservations', d.orderId, d.productId)
        /\ ~HasPending(inventoryReservations, d.orderId, d.productId)
              => inventoryReservations' = inventoryReservations

C4_ReleaseIdempotence == [][C4_Step]_vars

\* release has flipped two pending reservations of one (order, product)
C4_Witness ==
    /\ last.op = "release"
    /\ Cardinality({i \in 1..Len(inventoryReservations) :
            /\ inventoryReservations[i].orderId = last.data.orderId
            /\ inventoryReservations[i].productId = last.data.productId
            /\ inventoryReservations[i].status = "released"}) = 2

(***************************************************************************)
(* Properties of the order state machine and of the saga.                  *)
(***************************************************************************)
TerminalStatus == {"delivered", "cancelled", "refunded"}

\* the transition table of the order state machine, whatever the trigger
LegalTransition(from, to) ==
    \/ to = "confirmed" /\ from \in {"pending", "confirmed"}
    \/ to = "processing" /\ from \notin TerminalStatus
    \/ to = "cancelled" /\ from \notin TerminalStatus
    \/ to = "shipped" /\ from = "processing"

\* C5 (state-machine legality): every change of an order's status is a
\* transition of the table; an attempt outside the table leaves the status
\* as it was.
C5_Step ==
    \A o \in DOMAIN orders :
        orders'[o].status # orders[o].status =>
            LegalTransition(orders[o].status, orders'[o].status)

C5_StateMachineLegality == [][C5_Step]_vars

\* C6 (shipping only from processing): shipOrder on an existing order that is
\* not in processing fails, leaves the status as it was and publishes no
\* order.shipped.
C6_Step ==
    \A o \in DOMAIN orders :
        (shipRequest(o) /\ orders[o].status # "processing") =>
            /\ last'.outcome # "ok"
            /\ orders'[o].status = orders[o].status
            /\ last'.published = <<>>

C6_ShipOnlyFromProcessing == [][C6_Step]_vars

\* C7 (no processing after cancellation): consuming payment.completed never
\* moves an order that is cancelled to processing.
C7_Step ==
    \A o \in DOMAIN orders :
        (consumePayments /\ orders[o].status = "cancelled") =>
            orders'[o].status # "processing"

C7_NoProcessingAfterCancelled == [][C7_Step]_vars

\* C8 (cancel only from pending, confirmed or processing): a cancelOrder, from
\* the cancel route or from a consumer, on an order in any other status fails
\* and leaves the order's status, notes and cancelledAt as they were.
C8_Step ==
    \A o \in DOMAIN orders :
        ( /\ postCancel(o) \/ consumeProducts \/ consumePayments
          /\ last'.op = "cancelOrder" /\ last'.orderId = o
          /\ orders[o].status \notin {"pending", "confirmed", "processing"} ) =>
            /\ last'.outcome # "ok"
            /\ orders'[o] = orders[o]

C8_CancelOnlyFromOpenStatus == [][C8_Step]_vars

IsScenarioA ==
    /\ inventory = SagaInventory
    /\ "o1" \in DOMAIN orders
    /\ orderItems["o1"] = ScenarioA.items

Quiescent ==
    /\ creating = {}
    /\ ordersQueue = <<>>
    /\ productsQueue = <<>>
    /\ paymentsQueue = <<>>
    /\ handlers = <<>>

\* the end of scenario A: the order is cancelled, its one reservation (P1) is
\* released, and nothing is left to handle
C9_Final ==
    /\ Quiescent
    /\ "o1" \in DOMAIN orders
    /\ orders["o1"].status = "cancelled"
    /\ inventoryReservations =
          <<[orderId |-> "o1", productId |-> "P1", warehouseId |-> "W1",
             quantity |-> 3, status |-> "released"]>>

C9_Step ==
    IsScenarioA =>
        \* the events of the order.created handler
        /\ Len(productsQueue') > Len(productsQueue) =>
              productsQueue' = Append(productsQueue,
                 IF Len(inventoryReservations') > Len(inventoryReservations)
                 THEN [eventType |-> "inventory.reserved", orderId |-> "o1",
                       productId |-> "P1", warehouseId |-> "W1", quantity |-> 3]
                 ELSE [eventType |-> "inventory.insufficient", orderId |-> "o1",
                       productId |-> "P2", warehouseId |-> "W1",
                       requestedQuantity |-> 5, availableQuantity |-> 2])
        \* consuming inventory.insufficient cancels and publishes order.cancelled
        /\ ( /\ consumeProducts
             /\ Head(productsQueue).eventType = "inventory.insufficient" ) =>
              /\ orders'["o1"].status = "cancelled"
              /\ Len(ordersQueue') = Len(ordersQueue) + 1
              /\ ordersQueue'[Len(ordersQueue')].eventType = "order.cancelled"
              /\ ordersQueue'[Len(ordersQueue')].items = ScenarioA.items
        \* once reached, the end is kept
        /\ C9_Final => C9_Final'

\* C9 (scenario A): order.created yields inventory.reserved for P1 and
\* inventory.insufficient for P2 with availableQuantity 2; consuming the
\* latter cancels the order and publishes order.cancelled; and eventually the
\* order is cancelled with its P1 reservation released and none pending.
C9_ScenarioA == [][C9_Step]_vars /\ (IsScenarioA ~> C9_Final)

\* scenario A has run to its end
C9_Witness == IsScenarioA /\ C9_Final

\* C10 (compensation completeness): once nothing is left to handle, an order
\* that is cancelled has no pending reservation.
C10_CompensationComplete ==
    Quiescent =>
        \A o \in DOMAIN orders :
            orders[o].status = "cancelled" =>
                \A i \in 1..Len(inventoryReservations) :
                    inventoryReservations[i].orderId = o =>
                        inventoryReservations[i].status # "pending"

\* every line item of the order has a pending reservation
FullyReserved(o) ==
    \A i \in 1..Len(orderItems[o]) :
        HasPending(inventoryReservations, o, orderItems[o][i].productId)

NoPending(o) ==
    \A i \in 1..Len(inventoryReservations) :
        inventoryReservations[i].orderId = o =>
            inventoryReservations[i].status # "pending"

\* payment.failed has just cancelled the order o while it was fully reserved
CancelledWhenReserved(o) ==
    /\ o \in DOMAIN orders
    /\ last.op = "cancelOrder" /\ last.orderId = o /\ last.outcome = "ok"
    /\ orders[o].notes[Len(orders[o].notes)] = "payment failed"
    /\ FullyReserved(o)

C11_Step ==
    \A o \in DOMAIN orders :
        \* consuming payment.failed cancels and publishes every line item
        /\ ( /\ consumePayments
             /\ Head(paymentsQueue).eventType = "payment.failed"
             /\ Head(paymentsQueue).orderId = o
             /\ FullyReserved(o) ) =>
              /\ orders'[o].status = "cancelled"
              /\ ordersQueue' =
                    Append(ordersQueue,
                           [eventType |-> "order.cancelled", orderId |-> o,
                            items |-> orderItems[o], reason |-> "payment failed"])
        \* the handler of order.cancelled calls release for each line item in turn
        /\ \A h \in 1..Len(handlers) :
              ( /\ handleItem(h)
                /\ handlers[h].event.eventType = "order.cancelled"
                /\ handlers[h].event.orderId = o ) =>
                 /\ handlers[h].event.items = orderItems[o]
                 /\ last'.op = "release"
                 /\ last'.data.productId = orderItems[o][handlers[h].i].productId
                 /\ ~HasPending(inventoryReservations', o, last'.data.productId)

\* C11 (scenario C): for a fully reserved order, consuming payment.failed sets
\* the status to cancelled and publishes order.cancelled listing every line
\* item; handling that event releases each line item, and eventually no
\* reservation of the order is pending.
C11_ScenarioC ==
    /\ [][C11_Step]_vars
    /\ \A o \in NewOrderIds : CancelledWhenReserved(o) ~> NoPending(o)

\* a fully reserved order was cancelled by payment.failed and every one of its
\* reservations is released
C11_Witness ==
    /\ "o1" \in DOMAIN orders
    /\ orders["o1"].status = "cancelled"
    /\ orders["o1"].notes = <<"payment failed">>
    /\ Len(inventoryReservations) = Len(orderItems["o1"])
    /\ NoPending("o1")
    /\ Quiescent

\* C12 (scenario B): for a fully reserved order, consuming payment.completed
\* sets the status to processing and paymentId and transactionId to the values
\* the event carries, and changes nothing else in this order or any other.
C12_Step ==
    \A o \in DOMAIN orders :
        ( /\ consumePayments
          /\ Head(paymentsQueue).eventType = "payment.completed"
          /\ Head(paymentsQueue).orderId = o
          /\ FullyReserved(o) ) =>
            /\ orders'[o] =
                  [orders[o] EXCEPT
                      !.status = "processing",
                      !.paymentId = Head(paymentsQueue).paymentId,
                      !.transactionId = Head(paymentsQueue).transactionId]
            /\ \A other \in DOMAIN orders \ {o} : orders'[other] = orders[other]
            /\ DOMAIN orders' = DOMAIN orders

C12_ScenarioB == [][C12_Step]_vars

\* of two fully reserved orders, one was paid and the other is untouched
C12_Witness ==
    /\ DOMAIN orders = {"o1", "o2"}
    /\ FullyReserved("o1") /\ FullyReserved("o2")
    /\ \E o \in {"o1", "o2"} :
          /\ orders[o].status = "processing"
          /\ orders[o].paymentId = "pay1" /\ orders[o].transactionId = "tx1"
          /\ last.op = "updateOrderStatus" /\ last.orderId = o
          /\ \E other \in {"o1", "o2"} \ {o} : orders[other].status = "pending"

\* the pending reservations of order o for product p
PendingRows(o, p) ==
    {i \in 1..Len(inventoryReservations) :
        /\ inventoryReservations[i].orderId = o
        /\ inventoryReservations[i].productId = p
        /\ inventoryReservations[i].status = "pending"}

\* C13 (idempotent consumers): however often order.created is delivered, no
\* line item of the order has more than one pending reservation.
C13_OnePendingPerLineItem ==
    \A o \in DOMAIN orders :
        \A i \in 1..Len(orderItems[o]) :
            Cardinality(PendingRows(o, orderItems[o][i].productId)) <= 1

\* this step is a call cancelOrder(o, reason): from the cancel route, from
\* the handler of inventory.insufficient or from the handler of payment.failed
CancelCall(o, reason) ==
    \/ postCancel(o) /\ reason = "requested"
    \/ /\ consumeProducts
       /\ Head(productsQueue).eventType = "inventory.insufficient"
       /\ Head(productsQueue).orderId = o
       /\ reason = "insufficient"
    \/ /\ consumePayments
       /\ Head(paymentsQueue).eventType = "payment.failed"
       /\ Head(paymentsQueue).orderId = o
       /\ reason = "payment failed"

CancelReasons == {"requested", "insufficient", "payment failed"}

\* C14 (redundant cancellation): a cancelOrder of an order that is already
\* cancelled leaves its status, notes and cancelledAt as the first one set them.
C14_Step ==
    \A o \in DOMAIN orders, reason \in CancelReasons :
        (CancelCall(o, reason) /\ orders[o].status = "cancelled") =>
            /\ orders'[o].status = orders[o].status
            /\ orders'[o].notes = orders[o].notes
            /\ orders'[o].cancelledAt = orders[o].cancelledAt

C14_RedundantCancel == [][C14_Step]_vars

\* the order event that announces a status
StatusEvent == [confirmed |-> "order.confirmed", cancelled |-> "order.cancelled",
                shipped |-> "order.shipped"]

\* the events this step publishes about the order o
PublishedAbout(o) ==
    IF /\ \/ postCancel(o) \/ postConfirm(o) \/ shipRequest(o)
          \/ consumeProducts \/ consumePayments
       /\ last'.orderId = o
    THEN last'.published
    ELSE <<>>

\* C15 (one event per transition): a step changes an order's status to
\* confirmed, cancelled or shipped exactly when it publishes the one event
\* order.confirmed, order.cancelled or order.shipped of that order.
C15_Step ==
    \A o \in DOMAIN orders :
        IF /\ orders'[o].status # orders[o].status
           /\ orders'[o].status \in DOMAIN StatusEvent
        THEN /\ Len(PublishedAbout(o)) = 1
             /\ PublishedAbout(o)[1].eventType = StatusEvent[orders'[o].status]
             /\ PublishedAbout(o)[1].orderId = o
        ELSE PublishedAbout(o) = <<>>

C15_OneEventPerTransition == [][C15_Step]_vars

\* C16 (effect of cancelOrder): a successful cancelOrder(o, reason) keeps the
\* order's notes and appends the reason, stamps cancelledAt with the current
\* time, sets the status to cancelled, changes nothing else, and publishes one
\* order.cancelled whose items are the order's line items.
C16_Step ==
    \A o \in DOMAIN orders, reason \in CancelReasons :
        (CancelCall(o, reason) /\ last'.outcome = "ok") =>
            /\ clock' > clock
            /\ orders' = [orders EXCEPT ![o] =
                             [@ EXCEPT !.status = "cancelled",
                                       !.notes = Append(orders[o].notes, reason),
                                       !.cancelledAt = clock']]
            /\ last'.published =
                  <<[eventType |-> "order.cancelled", orderId |-> o,
                     items |-> orderItems[o], reason |-> reason]>>
            /\ ordersQueue' = ordersQueue \o last'.published
            /\ orderItems' = orderItems

TrackingRows(tracking, o) ==
    {i \in 1..Len(tracking) : tracking[i].orderId = o}

\* C17 (tracking completeness): right after create commits an order with N
\* line items, exactly N tracking rows of that order exist, each with
\* inventoryReserved = false, and the order's status is pending.
C17_Step ==
    \A o \in DOMAIN orders' \ DOMAIN orders :
        /\ Cardinality(TrackingRows(orderInventoryTracking', o)) =
              Len(orderItems'[o])
        /\ \A i \in TrackingRows(orderInventoryTracking', o) :
              orderInventoryTracking'[i].inventoryReserved = FALSE
        /\ orders'[o].status = "pending"
        /\ TrackingRows(orderInventoryTracking, o) = {}

C17_TrackingCompleteness == [][C17_Step]_vars

\* a second order was just committed, with two line items and two rows, while
\* the first order's rows are there too
C17_Witness ==
    /\ DOMAIN orders = {"o1", "o2"}
    /\ "o2" \in creating
    /\ Len(orderItems["o2"]) = 2
    /\ Cardinality(TrackingRows(orderInventoryTracking, "o2")) = 2
    /\ Len(orderInventoryTracking) > 2

\* C18 (tracking rows and line items): in every state the tracking rows of an
\* order are as many as its line items, name the same products, and no two of
\* them are for the same (order, product) pair.
C18_TrackingOneToOne ==
    \A o \in DOMAIN orders :
        LET rows == TrackingRows(orderInventoryTracking, o)
        IN /\ Cardinality(rows) = Len(orderItems[o])
           /\ {orderInventoryTracking[i].productId : i \in rows} =
                 {orderItems[o][k].productId : k \in 1..Len(orderItems[o])}
           /\ \A i, j \in rows :
                 orderInventoryTracking[i].productId =
                     orderInventoryTracking[j].productId => i = j

\* C19 (redelivery of inventory.reserved): markInventoryReserved(o, p) applied
\* to its own result changes nothing: the rows of (o, p) are true and stay
\* true, no row is added, and no other row is changed.
C19_Step ==
    ( /\ consumeProducts
      /\ Head(productsQueue).eventType = "inventory.reserved" ) =>
        LET o == Head(productsQueue).orderId
            p == Head(productsQueue).productId
            once == orderInventoryTracking'
            twice == markInventoryReserved(once, o, p)
        IN /\ twice = once
           /\ Len(once) = Len(orderInventoryTracking)
           /\ \A i \in 1..Len(once) :
                 IF once[i].orderId = o /\ once[i].productId = p
                 THEN once[i] =
                         [orderInventoryTracking[i] EXCEPT
                             !.inventoryReserved = TRUE]
                 ELSE once[i] = orderInventoryTracking[i]

C19_MarkReservedIdempotent == [][C19_Step]_vars

\* inventory.reserved for (o1, P1) was published twice and both were handled
C19_Witness ==
    /\ last.op = "markInventoryReserved"
    /\ Cardinality({i \in 1..Len(inventoryReservations) :
                       inventoryReservations[i].productId = "P1"}) = 2
    /\ productsQueue = <<>>
    /\ \E i \in 1..Len(orderInventoryTracking) :
          /\ orderInventoryTracking[i].productId = "P1"
          /\ orderInventoryTracking[i].inventoryReserved

\* C20 (acknowledgment protocol): a message leaves its queue for good only
\* when its handler has completed; when the local operation of the handler
\* fails, the message is back in its queue and is not acknowledged.
C20_Step ==
    /\ consumeProducts =>
          IF Head(productsQueue).orderId \in DOMAIN orders
             \/ Head(productsQueue).eventType = "inventory.reserved"
          THEN last'.outcome = "ok" /\ productsQueue' = Tail(productsQueue)
          ELSE last'.outcome # "ok" /\ productsQueue' = productsQueue
    /\ consumePayments =>
          IF Head(paymentsQueue).orderId \in DOMAIN orders
          THEN last'.outcome = "ok" /\ paymentsQueue' = Tail(paymentsQueue)
          ELSE /\ last'.outcome # "ok" /\ paymentsQueue' = paymentsQueue
               /\ orders' = orders /\ ordersQueue' = ordersQueue
    /\ \A h \in 1..Len(handlers) :
          /\ ackOrders(h) =>
                /\ handlers[h].i > Len(handlers[h].event.items)
                /\ ordersQueue' = ordersQueue
          /\ handleItem(h) =>
                IF handlers[h].event.eventType = "order.created"
                   /\ <<handlers[h].event.items[handlers[h].i].productId,
                        DefaultWarehouseId>> \notin DOMAIN inventory
                THEN /\ last'.outcome # "ok"
                     /\ Len(handlers') = Len(handlers) - 1
                     /\ ordersQueue' = <<handlers[h].event>> \o ordersQueue
                     /\ inventoryReservations' = inventoryReservations
                ELSE /\ last'.outcome = "ok"
                     /\ Len(handlers') = Len(handlers)
                     /\ ordersQueue' = ordersQueue

C20_AckProtocol == [][C20_Step]_vars

\* a payment event whose handler threw is still at the head of its queue,
\* and an order.created whose handler threw is back in its queue
C20_Witness ==
    /\ last.op \in {"updateOrderStatus", "cancelOrder"}
    /\ last.outcome = "NotFoundError"
    /\ paymentsQueue # <<>>
    /\ Head(paymentsQueue).orderId = last.orderId
    /\ \E i \in 1..Len(ordersQueue) : ordersQueue[i].eventType = "order.created"
    /\ inventoryReservations = <<>>
    /\ "o1" \in DOMAIN orders /\ "o1" \notin creating /\ handlers = <<>>

(***************************************************************************)
(* Properties of the consume loops and of the ledger's transactions.       *)
(***************************************************************************)

\* C21 (one message at a time): the handler of a message of the queue
\* products-service.orders does not start before the handler of the message
\* delivered before it has finished; no two handlers are in flight together.
C21_OneHandlerAtATime == Len(handlers) <= 1

\* C22 (commit before announce): every inventory.reserved that has been
\* published is for a reservation row that is in committed storage.
C22_ReservedOnlyIfCommitted ==
    \A k \in 1..Len(productsQueue) :
        productsQueue[k].eventType = "inventory.reserved" =>
            \E i \in 1..Len(inventoryReservations) :
                /\ inventoryReservations[i].orderId = productsQueue[k].orderId
                /\ inventoryReservations[i].productId = productsQueue[k].productId
                /\ inventoryReservations[i].warehouseId =
                      productsQueue[k].warehouseId
                /\ inventoryReservations[i].quantity = productsQueue[k].quantity

\* the handling of order.created, the events it publishes staying in the
\* queue of orders-service
NextHandle ==
    \/ \E data \in CreateBodies : createCommitOf(OrderIds, data)
    \/ \E o \in OrderIds : createPublish(o)
    \/ deliverOrders
    \/ \E h \in 1..Len(handlers) : handle(h)
    \/ \E h \in 1..Len(handlers) : ackOrders(h)

SpecHandle == Init /\ [][NextHandle]_vars

\* the inventory events published about order o, in publication order
InventoryEventsOf(o) == SelectSeq(productsQueue, LAMBDA e : e.orderId = o)

\* the events published about the order are, one for one and in order, the
\* line items the handler has gone through
OneEventPerHandledItem(h) ==
    LET event == handlers[h].event
        published == InventoryEventsOf(event.orderId)
    IN /\ Len(published) = handlers[h].i - 1
       /\ \A k \in 1..Len(published) :
             /\ published[k].productId = event.items[k].productId
             /\ published[k].eventType \in
                   {"inventory.reserved", "inventory.insufficient"}

C23_Step ==
    \A h \in 1..Len(handlers) :
        (handlers[h].event.eventType = "order.created" /\ handleItem(h)) =>
            LET event == handlers[h].event
                item == event.items[handlers[h].i]
            IN /\ last'.op = "reserve"
               /\ last'.data.orderId = event.orderId
               /\ last'.data.productId = item.productId
               /\ last'.data.quantity = item.quantity
               /\ last'.outcome = "ok"
               /\ Len(productsQueue') = Len(productsQueue) + 1

checkReserved(orderId) ==
    /\ last' = [op |-> "checkAllInventoryReserved", orderId |-> orderId,
                outcome |-> "ok",
                result |-> checkAllInventoryReserved(orderInventoryTracking,
                                                     orderId)]
    /\ UNCHANGED <<ledgerVars, productsQueue, ordersVars, ordersQueue,
                   paymentsQueue, handlers, requests, warehouseVars>>

NextTracking ==
    \/ NextCreate
    \/ \E o \in OrderIds : checkReserved(o)

\* orders are created and reserved while the check is asked at any moment
SpecTracking == Init /\ [][NextTracking]_vars

C24_Step ==
    \A o \in OrderIds :
        checkReserved(o) =>
            LET rows == {i \in 1..Len(orderInventoryTracking) :
                            orderInventoryTracking[i].orderId = o}
            IN last'.result =
                  (/\ rows # {}
                   /\ \A i \in rows : orderInventoryTracking[i].inventoryReserved)

\* C24 (fully reserved): checkAllInventoryReserved(order) is true exactly
\* when the order has tracking rows and every one of them has
\* inventoryReserved = true; for an order without tracking rows it is false.
C24_FullyReservedCheck == [][C24_Step]_vars

\* the check has answered true for an order of two line items, both reserved
C24_Witness ==
    /\ last.op = "checkAllInventoryReserved"
    /\ last.result
    /\ Cardinality(TrackingRows(orderInventoryTracking, last.orderId)) = 2

\* the check has answered false for an order that has no tracking row
C24_WitnessNoRows ==
    /\ last.op = "checkAllInventoryReserved"
    /\ ~last.result
    /\ TrackingRows(orderInventoryTracking, last.orderId) = {}

\* the check has answered false for an order reserved in part
C24_WitnessPartial ==
    /\ last.op = "checkAllInventoryReserved"
    /\ ~last.result
    /\ \E i \in 1..Len(orderInventoryTracking) :
          /\ orderInventoryTracking[i].orderId = last.orderId
          /\ orderInventoryTracking[i].inventoryReserved

\* the quantity the list sets for the pair key: that of its last entry for it
ListedQuantity(updates, key) ==
    LET ks == {k \in 1..Len(updates) :
                  <<updates[k].productId, updates[k].warehouseId>> = key}
        k == CHOOSE j \in ks : \A l \in ks : l <= j
    IN updates[k].quantity

ListedKeys(updates) ==
    {<<updates[k].productId, updates[k].warehouseId>> : k \in 1..Len(updates)}

C25_Step ==
    \A updates \in BatchData :
        batchUpdate(updates) =>
            IF Len(updates) = 0 \/ Len(updates) > 1000
            THEN last'.outcome = "ValidationError" /\ inventory' = inventory
            ELSE \/ /\ last'.outcome = "ok"
                    /\ last'.count = Len(updates)
                    /\ DOMAIN inventory' = DOMAIN inventory \cup ListedKeys(updates)
                    /\ \A key \in DOMAIN inventory' :
                          inventory'[key] =
                             IF key \in ListedKeys(updates)
                             THEN ListedQuantity(updates, key)
                             ELSE inventory[key]
                 \/ /\ last'.outcome \notin {"ok", "ValidationError"}
                    /\ inventory' = inventory

\* C25 (batch atomicity): batchUpdate of a list of 1 to 1000 entries either
\* upserts the quantity of every listed (product, warehouse) pair and returns
\* the number of entries, or fails and changes no inventory row; an empty
\* list and a list of more than 1000 entries fail with ValidationError and
\* change nothing.
C25_BatchAtomicity == [][C25_Step]_vars

\* a batch whose second entry failed has just been thrown back, and the pair
\* of its first entry still has another quantity than the entry asked for
C25_Witness ==
    /\ last.op = "batchUpdate"
    /\ last.outcome = "DatabaseError"
    /\ inventory[<<"P1", "W2">>] # 2

\* a batch of two entries has just been applied, creating a row
C25_WitnessApplied ==
    /\ last.op = "batchUpdate"
    /\ last.outcome = "ok"
    /\ last.count = 2
    /\ <<"P2", "W2">> \in DOMAIN inventory

\* the consume loop of products-service.orders keeps running: a message in
\* the queue is delivered and a handler in flight goes on to its next await
SpecPoison ==
    /\ InitAck
    /\ [][NextAck]_vars
    /\ WF_vars(deliverOrders)
    /\ WF_vars(\E h \in 1..Len(handlers) : handle(h))

\* an order.created one of whose line items has no inventory row in the
\* default warehouse: its handler fails on every delivery
Poison(e) ==
    /\ e.eventType = "order.created"
    /\ \E k \in 1..Len(e.items) :
          <<e.items[k].productId, DefaultWarehouseId>> \notin DOMAIN inventory

\* the message is in the queue or with a handler
Unsettled(queue, inFlight, e) ==
    \/ \E k \in 1..Len(queue) : queue[k] = e
    \/ \E h \in 1..Len(inFlight) : inFlight[h].event = e

PoisonUnsettled ==
    \/ \E k \in 1..Len(ordersQueue) : Poison(ordersQueue[k])
    \/ \E h \in 1..Len(handlers) : Poison(handlers[h].event)

\* a poison message stays unsettled
C26_Step ==
    /\ \A k \in 1..Len(ordersQueue) :
          Poison(ordersQueue[k]) =>
              Unsettled(ordersQueue', handlers', ordersQueue[k])
    /\ \A h \in 1..Len(handlers) :
          Poison(handlers[h].event) =>
              Unsettled(ordersQueue', handlers', handlers[h].event)

\* the handler of a poison message fails and the message is requeued
PoisonNack ==
    \E h \in 1..Len(handlers) :
        /\ Poison(handlers[h].event)
        /\ handleItem(h)
        /\ last'.outcome = "NotFoundError"
        /\ \E k \in 1..Len(ordersQueue') : ordersQueue'[k] = handlers[h].event

\* C26 (poison message): a message whose handler fails on every delivery is
\* never acknowledged and never dropped, and once it has been published its
\* handler fails and it is requeued again and again, without end.
C26_PoisonRetriedForever ==
    /\ [][C26_Step]_vars
    /\ ([]~PoisonUnsettled \/ []<><<PoisonNack>>_vars)

\* the poison message is back in the queue after a failed delivery, while
\* nothing else is left to do
C26_Witness ==
    /\ last.op = "reserve"
    /\ last.outcome = "NotFoundError"
    /\ handlers = <<>>
    /\ productsQueue = <<>>
    /\ paymentsQueue = <<>>
    /\ Len(ordersQueue) = 1
    /\ Poison(ordersQueue[1])

(***************************************************************************)
(* The stock routes.  validateRequest runs the body through the schema of  *)
(* the route before the service is called.                                 *)
(***************************************************************************)

\* updateInventorySchema: the quantity of a stock adjustment is not negative
updateInventorySchema(body) == body.quantity >= 0

\* batchUpdateInventorySchema: every entry is a valid stock adjustment
batchUpdateInventorySchema(updates) ==
    \A k \in 1..Len(updates) : updateInventorySchema(updates[k])

\* PUT /api/v1/inventory/:productId
putInventory(body) ==
    IF updateInventorySchema(body)
    THEN update(body.productId, body.warehouseId, body.quantity)
    ELSE /\ NoCallInFlight
         /\ last' = [op |-> "update", outcome |-> "ValidationError"]
         /\ UNCHANGED <<inventory, inventoryReservations, productsQueue, calls,
                        sagaVars>>

\* PATCH /api/v1/inventory/batch
patchInventoryBatch(updates) ==
    IF batchUpdateInventorySchema(updates)
    THEN batchUpdate(updates)
    ELSE /\ NoCallInFlight
         /\ last' = [op |-> "batchUpdate", outcome |-> "ValidationError"]
         /\ UNCHANGED <<inventory, inventoryReservations, productsQueue, calls,
                        sagaVars>>

\* bodies of the PUT route, one of them with a negative quantity
PutData == UpdateData \cup {Adjustment("P1", "W1", -1)}

\* bodies of the PATCH route, two of them with a negative quantity
PatchData ==
    {<<Adjustment("P1", "W1", 1)>>,
     <<Adjustment("P2", "W1", 0), Adjustment("P2", "W2", 1)>>,
     <<Adjustment("P1", "W1", -2)>>,
     <<Adjustment("P2", "W1", 1), Adjustment("P1", "W2", -1)>>}

NextStock ==
    \/ \E data \in ReserveData : reserve(data)
    \/ \E data \in ReleaseData : release(data)
    \/ \E body \in PutData : putInventory(body)
    \/ \E updates \in PatchData : patchInventoryBatch(updates)

\* the ledger's operations behind their routes, one call at a time
SpecStock == InitLedger /\ [][NextStock]_vars

ItemAt(productId, quantity, warehouseId) ==
    [productId |-> productId, quantity |-> quantity, warehouseId |-> warehouseId]

\* order.created and order.cancelled payloads with a warehouse on the line
\* item, on the order, on both, on neither, and with an empty one
OrderEventData ==
    {[eventType |-> "order.created", orderId |-> "o1", warehouseId |-> "W1",
      items |-> <<ItemAt("P1", 1, "W2")>>],
     [eventType |-> "order.created", orderId |-> "o1", warehouseId |-> "W2",
      items |-> <<Item("P1", 1), ItemAt("P2", 1, "W1")>>],
     [eventType |-> "order.created", orderId |-> "o2",
      items |-> <<Item("P1", 1)>>],
     [eventType |-> "order.created", orderId |-> "o2", warehouseId |-> "W2",
      items |-> <<ItemAt("P1", 1, "")>>],
     [eventType |-> "order.cancelled", orderId |-> "o1", reason |-> "user",
      items |-> <<ItemAt("P1", 1, "W2")>>],
     [eventType |-> "order.cancelled", orderId |-> "o1", reason |-> "user",
      warehouseId |-> "W2", items |-> <<Item("P1", 1)>>],
     [eventType |-> "order.cancelled", orderId |-> "o2", reason |-> "user",
      items |-> <<Item("P1", 1)>>]}

\* a publisher of the exchange orders sends an event
publishOrderEvent(event) ==
    /\ requests < MaxRequests
    /\ requests' = requests + 1
    /\ ordersQueue' = Append(ordersQueue, event)
    /\ UNCHANGED <<ledgerVars, productsQueue, last, ordersVars, paymentsQueue,
                   handlers, warehouseVars>>

NextWarehouse ==
    \/ \E event \in OrderEventData : publishOrderEvent(event)
    \/ deliverOrders
    \/ \E h \in 1..Len(handlers) : handle(h)
    \/ \E h \in 1..Len(handlers) : ackOrders(h)

\* the consumers of products-service.orders with stock in two warehouses
SpecWarehouse == InitLedger /\ [][NextWarehouse]_vars

C28_Step ==
    \A h \in 1..Len(handlers) :
        handleItem(h) =>
            LET event == handlers[h].event
                item == event.items[handlers[h].i]
                onItem == "warehouseId" \in DOMAIN item /\ item.warehouseId # ""
                onOrder == "warehouseId" \in DOMAIN event /\ event.warehouseId # ""
            IN /\ last'.op = IF event.eventType = "order.created"
                            THEN "reserve" ELSE "release"
               /\ last'.data.productId = item.productId
               /\ onItem => last'.data.warehouseId = item.warehouseId
               /\ (~onItem /\ onOrder) =>
                      last'.data.warehouseId = event.warehouseId
               /\ (~onItem /\ ~onOrder) =>
                      last'.data.warehouseId = DefaultWarehouseId

\* C28 (warehouse precedence): for each line item of a consumed
\* order.created or order.cancelled, the warehouse passed to reserve or
\* release is the line item's warehouseId if it has one, otherwise the
\* order-level warehouseId of the payload if it has one, otherwise the
\* default warehouse of the service.
C28_WarehousePrecedence == [][C28_Step]_vars

\* a line item naming W2 in an order naming W1 has been reserved in W2
C28_Witness ==
    /\ last.op = "reserve"
    /\ last.data.warehouseId = "W2"
    /\ \E i \in 1..Len(inventoryReservations) :
          /\ inventoryReservations[i].warehouseId = "W2"
          /\ inventoryReservations[i].orderId = "o1"
    /\ \E k \in 1..Len(productsQueue) :
          /\ productsQueue[k].eventType = "inventory.reserved"
          /\ productsQueue[k].warehouseId = "W2"
    /\ handlers = <<>>

\* a line item without warehouse in an order naming W2 has been released
\* with W2
C28_WitnessOrderLevel ==
    /\ last.op = "release"
    /\ last.data.warehouseId = "W2"
    /\ last.data.orderId = "o1"
    /\ handlers # <<>>

C29_Step ==
    \A data \in ReleaseData :
        release(data) =>
            /\ Len(inventoryReservations') = Len(inventoryReservations)
            /\ \A i \in 1..Len(inventoryReservations) :
                  LET row == inventoryReservations[i]
                      after == inventoryReservations'[i]
                  IN IF /\ row.orderId = data.orderId
                        /\ row.productId = data.productId
                        /\ row.status = "pending"
                     THEN /\ after.status = "released"
                          /\ after.orderId = row.orderId
                          /\ after.productId = row.productId
                          /\ after.warehouseId = row.warehouseId
                          /\ after.quantity = row.quantity
                     ELSE after = row
            /\ inventory' = inventory

\* C29 (frame of release): release flips to released exactly the pending
\* reservations of the given (order, product), whatever warehouseId and
\* quantity it was passed, and leaves unchanged every reservation of another
\* order or product, every reservation that is not pending, and every
\* Inventory.quantity.
C29_ReleaseFrame == [][C29_Step]_vars

\* release(o2, P1, W2, 3) has released o2's reservation of 2 in W1 while
\* another reservation stays pending
C29_Witness ==
    /\ last.op = "release"
    /\ last.data = Request("o2", "P1", "W2", 3)
    /\ \E i \in 1..Len(inventoryReservations) :
          /\ inventoryReservations[i].orderId = "o2"
          /\ inventoryReservations[i].productId = "P1"
          /\ inventoryReservations[i].warehouseId = "W1"
          /\ inventoryReservations[i].quantity = 2
          /\ inventoryReservations[i].status = "released"
    /\ \E i \in 1..Len(inventoryReservations) :
          inventoryReservations[i].status = "pending"

\* requests of the other order for the pair of request d
RivalRequests(d) ==
    {Request(o, d.productId, d.warehouseId, q) :
        o \in OrderIds \ {d.orderId}, q \in 1..3}

\* from any reachable state in which order o1 holds nothing of (p, w):
\* reserve by o1, release by o1, and then a reserve by another order gives
\* what that reserve would have given at once
C30_RoundTrip ==
    \A d1 \in ReserveData :
        (/\ <<d1.productId, d1.warehouseId>> \in DOMAIN inventory
         /\ ~HasPending(inventoryReservations, d1.orderId, d1.productId)) =>
            \A d2 \in RivalRequests(d1) :
                LET reserved == ReserveTxn(inventory, inventoryReservations, d1)
                    released == ReleaseRows(reserved.rows, d1.orderId,
                                            d1.productId)
                    after == ReserveTxn(inventory, released, d2)
                    before == ReserveTxn(inventory, inventoryReservations, d2)
                IN /\ after.outcome = before.outcome
                   /\ after.events = before.events
                   /\ (after.rows = released) = (before.rows = inventoryReservations)

\* the outcome of a reserve does not depend on the released reservations
C30_Step ==
    \A data \in ReserveData :
        reserve(data) =>
            LET live == SelectSeq(inventoryReservations,
                                  LAMBDA r : r.status # "released")
                t == ReserveTxn(inventory, live, data)
            IN /\ last'.outcome = t.outcome
               /\ productsQueue' = productsQueue \o t.events
               /\ Len(inventoryReservations') - Len(inventoryReservations)
                     = Len(t.rows) - Len(live)

updateOrder(tbl, orderId, data) ==
    IF orderId \notin DOMAIN tbl THEN Failed(tbl)
    ELSE [outcome |-> "ok",
          orders |-> [tbl EXCEPT ![orderId] =
                         [f \in DOMAIN tbl[orderId] |->
                             IF f \in DOMAIN data THEN data[f]
                             ELSE tbl[orderId][f]]],
          published |-> <<>>]

\* bodies of PATCH /api/v1/orders/:id
PatchOrderData == {[notes |-> <<"edited">>]}

\* PATCH /api/v1/orders/:id
patchOrder(orderId, data) ==
    /\ requests < MaxRequests
    /\ requests' = requests + 1
    /\ LET r == updateOrder(orders, orderId, data)
       IN /\ orders' = r.orders
          /\ last' = [op |-> "update", orderId |-> orderId,
                      outcome |-> r.outcome, published |-> r.published]
    /\ UNCHANGED <<ledgerVars, productsQueue, orderItems, orderInventoryTracking,
                   creating, ordersQueue, paymentsQueue, handlers, clock,
                   warehouseVars>>

NextFlag ==
    \/ createCommit(ScenarioA)
    \/ \E o \in OrderIds : createPublish(o)
    \/ \E o \in OrderIds : postCancel(o)
    \/ \E o \in OrderIds : postConfirm(o)
    \/ \E o \in OrderIds : shipRequest(o)
    \/ \E o \in OrderIds, data \in PatchOrderData : patchOrder(o, data)
    \/ \E t \in {"payment.completed", "payment.failed"}, o \in OrderIds :
          paymentEvent(t, o)
    \/ consumeProducts
    \/ consumePayments
    \/ deliverOrders
    \/ \E h \in 1..Len(handlers) : handle(h)
    \/ \E h \in 1..Len(handlers) : ackOrders(h)

\* the saga with every operation of OrderService
SpecFlag == Init /\ [][NextFlag]_vars

\* the step is the handling of inventory.reserved for the row's pair
MarksReserved(row) ==
    /\ consumeProducts
    /\ productsQueue # <<>>
    /\ Head(productsQueue).eventType = "inventory.reserved"
    /\ Head(productsQueue).orderId = row.orderId
    /\ Head(productsQueue).productId = row.productId

C31_Step ==
    /\ Len(orderInventoryTracking') >= Len(orderInventoryTracking)
    /\ \A i \in 1..Len(orderInventoryTracking) :
          LET row == orderInventoryTracking[i]
              after == orderInventoryTracking'[i]
          IN /\ after.orderId = row.orderId
             /\ after.productId = row.productId
             /\ row.inventoryReserved => after.inventoryReserved
             /\ after.inventoryReserved # row.inventoryReserved =>
                   MarksReserved(row)

\* C31 (tracking flag): the inventoryReserved flag of a tracking row changes
\* only when inventory.reserved for its (order, product) is handled by
\* markInventoryReserved, and only from false to true; no other operation on
\* orders changes it and a flag that is true is never false again.
C31_FlagMonotone == [][C31_Step]_vars

\* the order has been cancelled after one of its rows was marked, and the
\* row is still marked
C31_Witness ==
    /\ last.op = "cancelOrder"
    /\ last.outcome = "ok"
    /\ orders[last.orderId].status = "cancelled"
    /\ \E i \in 1..Len(orderInventoryTracking) :
          /\ orderInventoryTracking[i].orderId = last.orderId
          /\ orderInventoryTracking[i].inventoryReserved
    /\ \E i \in 1..Len(orderInventoryTracking) :
          /\ orderInventoryTracking[i].orderId = last.orderId
          /\ ~orderInventoryTracking[i].inventoryReserved

\* a transaction of create that keeps the order row when the insert of the
\* line items has failed
createRollbackKeepsOrder(ids, data) ==
    /\ data.items = <<>>
    /\ ids \ DOMAIN orders # {}
    /\ LET id == CHOOSE o \in ids \ DOMAIN orders : TRUE
       IN orders' = orders @@ (id :> NewOrder(data))
    /\ last' = [op |-> "create", outcome |-> "DatabaseError"]
    /\ UNCHANGED <<ledgerVars, productsQueue, orderItems, orderInventoryTracking,
                   creating, ordersQueue, paymentsQueue, handlers, clock,
                   requests, warehouseVars>>

\* OrderService.create whose transaction fails: the insert of an empty list
\* of line items throws after the order row was inserted, the transaction is
\* rolled back and the error leaves create before the publish
createRollback(ids, data) ==
    /\ data.items = <<>>
    /\ ids \ DOMAIN orders # {}
    /\ last' = [op |-> "create", outcome |-> "DatabaseError"]
    /\ UNCHANGED <<ledgerVars, productsQueue, ordersVars, ordersQueue,
                   paymentsQueue, handlers, requests, warehouseVars>>

\* a body of POST /api/v1/orders without line items
EmptyBodies == {[items |-> <<>>]}

NextCommit ==
    \/ NextCreate
    \/ \E data \in EmptyBodies : createRollback(OrderIds, data)

\* the creation of orders, some of which fail in their transaction
SpecCommit == Init /\ [][NextCommit]_vars

\* order.created has just been put on the exchange
PublishesOrderCreated ==
    /\ Len(ordersQueue') = Len(ordersQueue) + 1
    /\ SubSeq(ordersQueue', 1, Len(ordersQueue)) = ordersQueue
    /\ ordersQueue'[Len(ordersQueue')].eventType = "order.created"

C32_Step ==
    /\ PublishesOrderCreated =>
          LET event == ordersQueue'[Len(ordersQueue')]
              o == event.orderId
          IN /\ o \in DOMAIN orders
             /\ o \in DOMAIN orderItems
             /\ event.items = orderItems[o]
             /\ Cardinality(TrackingRows(orderInventoryTracking, o))
                   = Len(orderItems[o])
             /\ UNCHANGED <<orders, orderItems, orderInventoryTracking>>
    /\ (\E data \in EmptyBodies : createRollback(OrderIds, data)) =>
          /\ last'.outcome # "ok"
          /\ UNCHANGED <<orders, orderItems, orderInventoryTracking,
                         ordersQueue, creating>>
    /\ DOMAIN orders' = DOMAIN orderItems'
    /\ \A o \in DOMAIN orders' :
          Cardinality(TrackingRows(orderInventoryTracking', o))
             = Len(orderItems'[o])

\* C32 (order creation commits before it announces): order.created is
\* published only for an order whose row, line items and tracking rows are
\* already committed, all together, and it lists exactly the committed line
\* items; when the transaction of create fails no order, line item or
\* tracking row exists and nothing is published.
C32_CommitBeforeAnnounce == [][C32_Step]_vars

\* order.created of an order of two line items has been published after an
\* earlier create was rolled back
C32_Witness ==
    /\ last.op = "create"
    /\ last.outcome = "ok"
    /\ DOMAIN orders = {"o1"}
    /\ Len(orderItems["o1"]) = 2
    /\ ordersQueue = <<createOrderCreatedEvent("o1", orderItems["o1"])>>
    /\ creating = {}

\* a create has just been rolled back and no order exists
C32_WitnessRolledBack ==
    /\ last.op = "create"
    /\ last.outcome = "DatabaseError"
    /\ orders = <<>>
    /\ ordersQueue = <<>>

C33_Step ==
    \A data \in ReserveData :
        (/\ reserve(data)
         /\ <<data.productId, data.warehouseId>> \notin DOMAIN inventory) =>
            /\ last'.op = "reserve"
            /\ last'.outcome = "NotFoundError"
            /\ inventoryReservations' = inventoryReservations
            /\ productsQueue' = productsQueue
            /\ inventory' = inventory

\* C33 (reserve without inventory row): reserve for a (product, warehouse)
\* pair that has no inventory row fails with NotFoundError, inserts no
\* reservation and publishes neither inventory.reserved nor
\* inventory.insufficient.
C33_ReserveNotFound == [][C33_Step]_vars

\* reserve of P2 in W2, which has no inventory row, has just failed while a
\* reservation and its event exist
C33_Witness ==
    /\ last.op = "reserve"
    /\ last.outcome = "NotFoundError"
    /\ last.data = Request("o1", "P2", "W2", 1)
    /\ <<"P2", "W2">> \notin DOMAIN inventory
    /\ inventoryReservations # <<>>
    /\ productsQueue # <<>>

NextMissing ==
    \/ NextFlag
    \/ \E t \in {"payment.completed", "payment.failed"}, o \in OrderIds :
          publishPayment(t, o)

\* the saga with requests and payment events that name an order that does
\* not exist
SpecMissing == Init /\ [][NextMissing]_vars

\* the call has failed and has changed and published nothing
NotFoundEffect ==
    /\ last'.outcome = "NotFoundError"
    /\ last'.published = <<>>
    /\ orders' = orders
    /\ orderItems' = orderItems
    /\ orderInventoryTracking' = orderInventoryTracking
    /\ ordersQueue' = ordersQueue

C34_Step ==
    /\ \A o \in OrderIds \ DOMAIN orders :
          /\ postCancel(o) => (last'.op = "cancelOrder" /\ NotFoundEffect)
          /\ postConfirm(o) => (last'.op = "confirmOrder" /\ NotFoundEffect)
          /\ shipRequest(o) => (last'.op = "shipOrder" /\ NotFoundEffect)
    /\ (/\ consumePayments
        /\ paymentsQueue # <<>>
        /\ Head(paymentsQueue).orderId \notin DOMAIN orders) =>
          /\ last'.op = IF Head(paymentsQueue).eventType = "payment.completed"
                       THEN "updateOrderStatus" ELSE "cancelOrder"
          /\ NotFoundEffect

\* C34 (order not found): cancelOrder, confirmOrder, updateOrderStatus and
\* shipOrder on an order id that does not exist fail with NotFoundError,
\* change no order and publish no event.
C34_OrderNotFound == [][C34_Step]_vars

\* updateOrderStatus has just failed for o2, which does not exist, while o1
\* does
C34_Witness ==
    /\ last.op = "updateOrderStatus"
    /\ last.outcome = "NotFoundError"
    /\ last.orderId = "o2"
    /\ DOMAIN orders = {"o1"}

\* confirmOrder has just failed before any order exists
C34_WitnessConfirm ==
    /\ last.op = "confirmOrder"
    /\ last.outcome = "NotFoundError"
    /\ orders = <<>>

\* the columns of a reservation that no operation rewrites
SameReservation(a, b) ==
    /\ a.orderId = b.orderId
    /\ a.productId = b.productId
    /\ a.warehouseId = b.warehouseId
    /\ a.quantity = b.quantity

C35_Step ==
    LET rows == inventoryReservations
        after == inventoryReservations'
    IN /\ Len(after) >= Len(rows)
       /\ \A i \in 1..Len(rows) :
             /\ SameReservation(rows[i], after[i])
             /\ after[i].status # rows[i].status =>
                   /\ rows[i].status = "pending"
                   /\ after[i].status = "released"
                   /\ \E data \in ReleaseData :
                         /\ release(data)
                         /\ data.orderId = rows[i].orderId
                         /\ data.productId = rows[i].productId
       /\ Len(after) > Len(rows) =>
             /\ Len(after) = Len(rows) + 1
             /\ after[Len(after)].status = "pending"
             /\ \E data \in ReserveData :
                   /\ reserve(data)
                   /\ SameReservation(after[Len(after)], data)

\* C35 (reservation lifecycle): a reservation row is created only by reserve
\* and only as pending; its status changes only from pending to released,
\* by release; no operation sets it to confirmed, returns a released row to
\* pending, deletes a row or changes its quantity, order, product or
\* warehouse.
C35_ReservationLifecycle ==
    /\ [][C35_Step]_vars
    /\ [](\A i \in 1..Len(inventoryReservations) :
             inventoryReservations[i].status \in {"pending", "released"})

\* a released and a pending reservation have gone through a later stock
\* adjustment
C35_Witness ==
    /\ last.op \in {"update", "batchUpdate"}
    /\ last.outcome = "ok"
    /\ \E i \in 1..Len(inventoryReservations) :
          inventoryReservations[i].status = "released"
    /\ \E i \in 1..Len(inventoryReservations) :
          inventoryReservations[i].status = "pending"

\* every operation of the ledger leaves its name in last
C36_Step ==
    /\ last'.op \in {"reserve", "release"} => inventory' = inventory
    /\ last'.op \in {"update", "batchUpdate"} =>
          inventoryReservations' = inventoryReservations
    /\ inventory' # inventory =>
          /\ last'.op \in {"update", "batchUpdate"}
          /\ last'.outcome = "ok"

\* C36 (stock and reservations are written apart): reserve and release never
\* change Inventory.quantity, which changes only through update and
\* batchUpdate, and those two never change a reservation row.
C36_StockFrame == [][C36_Step]_vars

\* the stock of P1 in W1 has been adjusted to 1 while a reservation of it is
\* pending and another is released
C36_Witness ==
    /\ last.op = "update"
    /\ inventory[<<"P1", "W1">>] = 1
    /\ \E i \in 1..Len(inventoryReservations) :
          /\ inventoryReservations[i].productId = "P1"
          /\ inventoryReservations[i].warehouseId = "W1"
          /\ inventoryReservations[i].status = "pending"
    /\ \E i \in 1..Len(inventoryReservations) :
          inventoryReservations[i].status = "released"

\* bodies of POST /api/v1/orders whose last line item names P2, and one
\* without P2
PartialData ==
    {[items |-> <<Item("P1", 3), Item("P2", 1)>>],
     [items |-> <<Item("P1", 4), Item("P1", 7), Item("P2", 1)>>],
     [items |-> <<Item("P1", 3)>>]}

\* a delivery of the queue products-service.orders, the deliveries of one
\* run being counted
deliverOrdersCounted ==
    /\ requests < MaxRequests
    /\ requests' = requests + 1
    /\ ordersQueue # <<>>
    /\ handlers' = Append(handlers,
                          StartHandler(Head(ordersQueue), defaultWarehouseId))
    /\ ordersQueue' = Tail(ordersQueue)
    /\ UNCHANGED <<ledgerVars, productsQueue, last, ordersVars, paymentsQueue,
                   warehouseVars>>

NextPartial ==
    \/ \E data \in PartialData : createCommitOf(OrderIds, data)
    \/ \E o \in OrderIds : createPublish(o)
    \/ deliverOrdersCounted
    \/ \E h \in 1..Len(handlers) : handle(h)
    \/ \E h \in 1..Len(handlers) : ackOrders(h)

\* order.created handled against a stock that has no inventory row for P2
SpecPartial == InitAck /\ [][NextPartial]_vars

C37_Step ==
    \A h \in 1..Len(handlers) :
        (/\ handlers[h].event.eventType = "order.created"
         /\ handleItem(h)
         /\ last'.outcome = "NotFoundError") =>
            LET event == handlers[h].event
                k == handlers[h].i
            IN /\ inventoryReservations' = inventoryReservations
               /\ productsQueue' = productsQueue
               /\ \A j \in 1..(k - 1) :
                     (\E e \in 1..Len(productsQueue') :
                         /\ productsQueue'[e].eventType = "inventory.reserved"
                         /\ productsQueue'[e].orderId = event.orderId
                         /\ productsQueue'[e].productId = event.items[j].productId
                         /\ productsQueue'[e].quantity = event.items[j].quantity) =>
                     \E i \in 1..Len(inventoryReservations') :
                         /\ inventoryReservations'[i].orderId = event.orderId
                         /\ inventoryReservations'[i].productId =
                               event.items[j].productId
                         /\ inventoryReservations'[i].quantity =
                               event.items[j].quantity
                         /\ inventoryReservations'[i].status = "pending"
               /\ Len(handlers') = Len(handlers) - 1
               /\ ordersQueue' = <<event>> \o ordersQueue

\* C37 (partial failure is not rolled back): when reserve throws for line
\* item k of order.created, the reservations made for the line items before
\* it stay pending and their inventory.reserved events stay published, and
\* the message is put back in the queue.
C37_PartialFailureKept == [][C37_Step]_vars

\* the handler of <<P1 x 3, P2 x 1>> has failed on its second line item: the
\* reservation of P1 is pending, its event is published and the message is
\* back in the queue
C37_Witness ==
    /\ last.op = "reserve"
    /\ last.outcome = "NotFoundError"
    /\ last.data.productId = "P2"
    /\ handlers = <<>>
    /\ ordersQueue # <<>>
    /\ Head(ordersQueue).eventType = "order.created"
    /\ Head(ordersQueue).orderId = last.data.orderId
    /\ \E i \in 1..Len(inventoryReservations) :
          /\ inventoryReservations[i].orderId = last.data.orderId
          /\ inventoryReservations[i].productId = "P1"
          /\ inventoryReservations[i].status = "pending"
    /\ \E e \in 1..Len(productsQueue) :
          /\ productsQueue[e].eventType = "inventory.reserved"
          /\ productsQueue[e].orderId = last.data.orderId

(***************************************************************************)
(* Messages whose event type the consume loops do not dispatch.            *)
(***************************************************************************)

\* events of the exchange orders that the callback of products-service does
\* not dispatch
OtherOrderEvents ==
    {[eventType |-> "order.confirmed", orderId |-> "o1",
      items |-> <<Item("P1", 3)>>],
     [eventType |-> "order.shipped", orderId |-> "o1"]}

\* events of the exchanges products and payments that the callbacks of
\* orders-service do not dispatch
OtherProductEvents ==
    {[eventType |-> "inventory.released", orderId |-> "o1", productId |-> "P1",
      warehouseId |-> "W1", quantity |-> 3]}

OtherPaymentEvents ==
    {[eventType |-> "payment.refunded", orderId |-> "o1", paymentId |-> "pay1"]}

\* such a message reaches the queue of the consumer
publishOther(event) ==
    /\ requests < MaxRequests
    /\ requests' = requests + 1
    /\ ordersQueue' = IF event \in OtherOrderEvents
                      THEN Append(ordersQueue, event) ELSE ordersQueue
    /\ productsQueue' = IF event \in OtherProductEvents
                        THEN Append(productsQueue, event) ELSE productsQueue
    /\ paymentsQueue' = IF event \in OtherPaymentEvents
                        THEN Append(paymentsQueue, event) ELSE paymentsQueue
    /\ UNCHANGED <<ledgerVars, last, ordersVars, handlers, warehouseVars>>

NextOther ==
    \/ createCommit(ScenarioA)
    \/ \E o \in OrderIds : createPublish(o)
    \/ \E event \in OtherOrderEvents \cup OtherProductEvents
                       \cup OtherPaymentEvents : publishOther(event)
    \/ consumeProducts
    \/ consumePayments
    \/ deliverOrders
    \/ \E h \in 1..Len(handlers) : handle(h)
    \/ \E h \in 1..Len(handlers) : ackOrders(h)

\* the saga of one order while messages of other event types arrive
SpecOther == Init /\ [][NextOther]_vars

\* nothing of the two services' storage changes
StorageUnchanged ==
    UNCHANGED <<inventory, inventoryReservations, orders, orderItems,
                orderInventoryTracking, last>>

C38_Step ==
    /\ (/\ consumeProducts
        /\ productsQueue # <<>>
        /\ Head(productsQueue).eventType \notin
              {"inventory.reserved", "inventory.insufficient"}) =>
          /\ productsQueue' = Tail(productsQueue)
          /\ ordersQueue' = ordersQueue
          /\ StorageUnchanged
    /\ (/\ consumePayments
        /\ paymentsQueue # <<>>
        /\ Head(paymentsQueue).eventType \notin
              {"payment.completed", "payment.failed"}) =>
          /\ paymentsQueue' = Tail(paymentsQueue)
          /\ ordersQueue' = ordersQueue
          /\ StorageUnchanged
    /\ \A h \in 1..Len(handlers) :
          handlers[h].event.eventType \notin {"order.created", "order.cancelled"} =>
             /\ ~handle(h)
             /\ ackOrders(h) =>
                   /\ ordersQueue' = ordersQueue
                   /\ productsQueue' = productsQueue
                   /\ StorageUnchanged

\* a delivered message of another event type can be acknowledged at once
C38_Acknowledged ==
    \A h \in 1..Len(handlers) :
        handlers[h].event.eventType \notin {"order.created", "order.cancelled"} =>
            ENABLED ackOrders(h)

\* C38 (other event types): a message delivered to a consume loop whose
\* event type is none of those the loop dispatches is acknowledged without a
\* handler being called and without any change to orders, tracking rows,
\* inventory or reservations.
C38_OtherEventsAcknowledged ==
    /\ [][C38_Step]_vars
    /\ []C38_Acknowledged

\* a message of another event type has been acknowledged while the order is
\* pending and its order.created waits in the queue
C38_Witness ==
    /\ "o1" \in DOMAIN orders
    /\ orders["o1"].status = "pending"
    /\ requests = 1
    /\ productsQueue = <<>>
    /\ paymentsQueue = <<>>
    /\ handlers = <<>>
    /\ ordersQueue = <<createOrderCreatedEvent("o1", orderItems["o1"])>>

(***************************************************************************)
(* products-service: the table warehouses and the default warehouse each   *)
(* consumer caches.                                                        *)
(***************************************************************************)

\* the ids the warehouses table generates for new warehouses
NewWarehouseIds == {"W3"}

\* bodies of POST /api/v1/warehouses; is_active defaults to true
WarehouseBodies == {[name |-> "north"], [name |-> "spare", isActive |-> FALSE]}

\* WarehouseService.create
createWarehouse(data) ==
    /\ NewWarehouseIds \ DOMAIN warehouses # {}
    /\ LET id == CHOOSE w \in NewWarehouseIds \ DOMAIN warehouses : TRUE
       IN warehouses' = warehouses @@
             (id :> IF "isActive" \in DOMAIN data THEN data.isActive ELSE TRUE)
    /\ UNCHANGED <<ledgerVars, productsQueue, last, ordersVars, ordersQueue,
                   paymentsQueue, handlers, requests, defaultWarehouseId>>

\* a body of POST /api/v1/orders that names no warehouse
CacheData == {[items |-> <<Item("P1", 1)>>]}

\* the services start with one active warehouse or with none
InitCache ==
    /\ inventory = SagaInventory
    /\ inventoryReservations = <<>>
    /\ productsQueue = <<>>
    /\ calls = [c \in Callers |-> IdleCall]
    /\ last = [op |-> "none", outcome |-> "ok"]
    /\ InitOrders
    /\ warehouses \in {InitialWarehouses, [w \in Warehouses |-> FALSE]}
    /\ defaultWarehouseId = [c \in Consumers |-> "null"]

NextCache ==
    \/ \E data \in CacheData : createCommitOf(OrderIds, data)
    \/ \E o \in OrderIds : createPublish(o)
    \/ \E o \in NewOrderIds : postCancel(o)
    \/ \E data \in WarehouseBodies : createWarehouse(data)
    \/ deliverOrders
    \/ \E h \in 1..Len(handlers) : handle(h)
    \/ \E h \in 1..Len(handlers) : ackOrders(h)

\* orders that name no warehouse are created and cancelled while warehouses
\* are created
SpecCache == InitCache /\ [][NextCache]_vars

\* the handlers in flight of consumer c that have resolved their default
ResolvedHandlers(c) ==
    {h \in 1..Len(handlers) :
        /\ handlers[h].event.eventType = c
        /\ handlers[h].defaultWarehouseId # "null"}

C39_Step ==
    /\ \A c \in Consumers :
          defaultWarehouseId[c] # "null" =>
             defaultWarehouseId'[c] = defaultWarehouseId[c]
    /\ \A h \in 1..Len(handlers) :
          (/\ getDefaultWarehouseId(h)
           /\ ActiveWarehouses(warehouses) = {}) =>
              /\ defaultWarehouseId' = defaultWarehouseId
              /\ UNCHANGED <<inventory, inventoryReservations, productsQueue,
                             last>>
              /\ ordersQueue' = <<handlers[h].event>> \o ordersQueue

\* C39 (default-warehouse cache): once a consumer has resolved its default
\* warehouse, its cache keeps that id and every handler of the consumer
\* that has a default has that same id, whatever warehouses are created
\* later; when no warehouse is active at the resolution, the handler throws:
\* nothing is cached, no reserve or release runs and the message is put back.
C39_DefaultWarehouseCached ==
    /\ [][C39_Step]_vars
    /\ [](\A c \in Consumers : \A h \in ResolvedHandlers(c) :
             handlers[h].defaultWarehouseId = defaultWarehouseId[c])

=============================================================================
